---- MODULE Spec2Model ----
(***************************************************************************)
(* A model of pyport: the dependency graph of dependency.py (its           *)
(* mutations, persistence and queries), the build orchestrators of         *)
(* build.py and core.py, the installer of install.py, the remover of       *)
(* remove.py and the ledger installed.json that both of them rewrite, the  *)
(* port builder of sandbox.py, the compile and configure stages of         *)
(* compile.py and configure.py, and the command runner of fakeroot.py.     *)
(*                                                                         *)
(* Python values are modelled as follows.  A package name and a            *)
(* requirement string are strings; Python's None is the string "None".     *)
(* The dict adj is a function whose DOMAIN is the set of its keys and      *)
(* whose values are the edge lists, sequences of <<dep, requirement>>.     *)
(* A Python set has no specified iteration order: every place where the    *)
(* code iterates over a set takes the order as an input (a permutation).   *)
(***************************************************************************)
EXTENDS Integers, Sequences, FiniteSets, TLC

VARIABLES adj, meta, persistFile, res, ports, installed, fs, procs

vars == <<adj, meta, persistFile, res, ports, installed, fs, procs>>

----------------------------------------------------------------------------
(* Bounds and input sets *)

\* the largest number of edges a modelled graph holds
MaxEdges == 3

\* Python's None
None == "None"

\* the package names of the resolution model, and Python's order of them
\* (sorted() compares the strings)
Pkgs == {"A", "B", "C"}
SortedNames == <<"A", "B", "C", "P1", "P2", "P3", "X">>

\* the requirement strings of the resolution model: those on package "B",
\* and those on the other packages
ResolveReqs(dep) == IF dep = "B" THEN {None, ">=1.0", "<2.0"} ELSE {None}

\* the requesters, the dependency and the requirement strings of the
\* conflict model
Requesters == {"P1", "P2", "P3"}
ConflictReqs == {None, "==1.0", "==2.0", "==3.0", ">=1.0", "<2.0"}

\* the requirement strings that are equality constraints
EqReqs == {"==1.0", "==2.0", "==3.0"}

\* the names, requirement strings and versions of the mutation model
GraphPkgs == {"A", "B"}
GraphReqs == {None, ">=1.0", "==2.0"}
Versions == {None, "1.0"}

\* the keyword arguments of add_node at their defaults.  The list keywords
\* are tested for truth only, so None and [] are both the empty list here.
NoKw == [version |-> None, provides |-> <<>>, conflicts |-> <<>>, replaces |-> <<>>,
         source |-> None, port_path |-> None, available_versions |-> <<>>]

\* the packages of the shared-dependency model, and the dependency lists
\* their port files declare: none, or one package that comes later
SharedPkgs == {"A", "B", "C"}
SharedDependsOf(name) ==
  {<<>>} \cup {<< <<dep, None>> >> :
                 dep \in CASE name = "A" -> {"B", "C"} [] name = "B" -> {"C"} [] OTHER -> {}}

\* the version strings of the comparison model, each the sequence of its
\* characters: 1.9, 1.10, 1, 1.0, 1.a, 1.b, 1.x; and the operators a
\* requirement is written with (none, the six operators, and >= with a blank)
VersionStrs ==
  {<<"1", ".", "9">>, <<"1", ".", "1", "0">>, <<"1">>, <<"1", ".", "0">>,
   <<"1", ".", "a">>, <<"1", ".", "b">>, <<"1", ".", "x">>}
ReqPrefixes ==
  {<<>>, <<">", "=">>, <<"<", "=">>, <<"=", "=">>, <<"!", "=">>, <<">">>, <<"<">>,
   <<">", "=", " ">>}

\* the package that add_node is called on with keywords, and the keyword
\* records of the calls: one keyword supplied, none, or all of them
MetaPkgs == {"A"}
MetaKws ==
  {NoKw}
    \cup {[NoKw EXCEPT !.version = v] : v \in {"1.0", "2.0"}}
    \cup {[NoKw EXCEPT !.provides = l] : l \in {<<"v1">>, <<"v2">>, <<"v2", "v2">>}}
    \cup {[NoKw EXCEPT !.conflicts = l] : l \in {<<"X">>}}
    \cup {[NoKw EXCEPT !.replaces = l] : l \in {<<"Y">>}}
    \cup {[NoKw EXCEPT !.source = x] : x \in {"", "s1", "s2"}}
    \cup {[NoKw EXCEPT !.port_path = x] : x \in {"p1", "p2"}}
    \cup {[NoKw EXCEPT !.available_versions = l] : l \in {<<"1.0">>, <<"1.0", "2.0">>}}
    \cup {[version |-> "2.0", provides |-> <<"v1">>, conflicts |-> <<"X">>,
           replaces |-> <<"Y">>, source |-> "s2", port_path |-> "p2",
           available_versions |-> <<"2.0">>]}

\* the packages of the build model, the names a port file can have, and the
\* dependency lists a port file of the model declares
BuildPkgs == {"A", "B"}
PortfileNames == {"Portfile.yaml", "portfile.yaml"}
DependsOf(name) ==
  {<<>>} \cup {<< <<dep, None>> >> : dep \in BuildPkgs \ {name}}
       \cup {<< <<dep, "==1.0">>, <<dep, "==2.0">> >> : dep \in BuildPkgs \ {name}}

\* the install model: the target paths and Python's order of them, the
\* entries a host path and a package path can hold, the packages, the bytes
\* of a regular file of a package and the largest free space
InstallPaths == {"/x", "/y"}
NotUtf8 == "bytes that are not UTF-8"
HostEntries == {[type |-> "file", content |-> "old"], [type |-> "file", content |-> NotUtf8],
                [type |-> "symlink", content |-> "s"]}
PkgEntries == {[type |-> "file", content |-> "new"], [type |-> "symlink", content |-> "t"]}
InstallNames == {"p", "q"}
InstallVersions == {"1.0", "2.0"}
FileBytes == 1
MaxFree == 4
UpgradeVersions == {"9.0", "10.0"}
UpgradeFiles ==
  {[name |-> "p", version |-> v, depends |-> <<>>,
    entries |-> [f \in {"/x"} |-> [type |-> "file", content |-> "new"]]] :
     v \in UpgradeVersions}
InterruptPoints == {"before_backup", "copy", "ledger_write", "recorded", "cleaned"}
PkgTrees == UNION {[S -> PkgEntries] : S \in (SUBSET InstallPaths) \ {{}}}
PkgFiles ==
  {[name |-> "p", version |-> v, depends |-> <<>>, entries |-> e] :
     v \in InstallVersions, e \in PkgTrees}
  \cup {[name |-> "q", version |-> v, depends |-> <<"p">>,
         entries |-> [f \in {"/y"} |-> [type |-> "file", content |-> "new"]]] :
           v \in InstallVersions}
HostTrees == UNION {[S -> HostEntries] : S \in SUBSET InstallPaths}

\* the remove model: the paths of the host, what a symlink of the model
\* points to, and what a path can hold
RemovePaths == {"/a", "/a/b", "/a/b/f", "/a/g", "/x"}
LinkedData == "data of the link target"
RemoveEntries == {[type |-> "file", content |-> "old"], [type |-> "symlink", content |-> "s"],
                  [type |-> "dir", content |-> ""]}

\* the concurrency models: the invocations that run at the same time, each
\* an install or a remove of one package or a read of the ledger
LedgerCalls ==
  {[op |-> "install", name |-> n] : n \in InstallNames}
  \cup {[op |-> "remove", name |-> n] : n \in InstallNames}
  \cup {[op |-> "read", name |-> None]}
LedgerProcs == {"pid1", "pid2", "pid3"}

\* the processes that work on deps.json and the mutation each makes
PersistProcs == {"pid1", "pid2"}
PersistCalls ==
  {[op |-> "add_node", name |-> n, dep |-> None] : n \in GraphPkgs}
  \cup {[op |-> "add_edge", name |-> e[1], dep |-> e[2]] :
           e \in {x \in GraphPkgs \X GraphPkgs : x[1] # x[2]}}

\* the source lists of a port: archives, plain files and git repositories
PortSources == {<<>>, <<"archive">>, <<"git">>, <<"archive", "archive">>, <<"file", "archive">>}

\* the longest run of build_port of the model, and the number of its steps
\* that fail in one run
MaxSteps == 15
MaxFailures == 2

\* the compile model: the source files of a build directory and the latest
\* mtime one gets, the build systems, the job counts and the flags of a
\* port, and the largest number of executions of one call that can fail
SourceFiles == {"Makefile", "main.c"}
MaxTime == 3
CompileSystems == {"autotools", "meson", "cargo", "custom"}
JobCounts == {1, 4}
PortFlags == {"", "-O2"}
MaxRuns == 4

\* the sandbox model: the tools of the two layers, the sandbox directories
\* (one relative, one absolute) and the install commands, with and without
\* a destination
Tools == {"bwrap", "fakeroot"}
SandboxDirs == {"sb", "/work/sb"}
InstallCmds ==
  {<<[flag |-> "", value |-> "make"], [flag |-> "", value |-> "install"]>>,
   <<[flag |-> "", value |-> "make"], [flag |-> "", value |-> "install"],
     [flag |-> "DESTDIR=", value |-> "/stage"]>>,
   <<[flag |-> "", value |-> "setup.py"], [flag |-> "", value |-> "install"],
     [flag |-> "--root=", value |-> "/stage"]>>,
   <<[flag |-> "", value |-> "make"], [flag |-> "", value |-> "install"],
     [flag |-> "--prefix=", value |-> "/usr"]>>,
   <<[flag |-> "", value |-> "cmake"], [flag |-> "", value |-> "--install"],
     [flag |-> "--prefix=", value |-> "/install/usr"]>>,
   <<[flag |-> "", value |-> "cargo"], [flag |-> "", value |-> "install"],
     [flag |-> "", value |-> "--root"], [flag |-> "", value |-> "/install"]>>,
   <<[flag |-> "", value |-> "/usr/bin/install"], [flag |-> "", value |-> "prog"],
     [flag |-> "--prefix=", value |-> "/usr"]>>}

\* the words of the model that hold the text "/install"
InstallTexts == {"/install", "/install/usr", "/usr/bin/install"}

----------------------------------------------------------------------------
(* Sequences and sets *)

Range(s) == {s[i] : i \in 1..Len(s)}

Reverse(s) == [i \in 1..Len(s) |-> s[Len(s) + 1 - i]]

\* list.index(v): the first position of v
IndexOf(s, v) == CHOOSE i \in 1..Len(s) : s[i] = v /\ \A j \in 1..(i - 1) : s[j] # v

\* position of an element in a list without repetitions, 0 when absent
Pos(s, v) == IF v \in Range(s) THEN IndexOf(s, v) ELSE 0

\* the iteration orders a set can have
Perms(S) == {p \in [1..Cardinality(S) -> S] : \A i, j \in 1..Cardinality(S) : p[i] = p[j] => i = j}

Rank(n) == IndexOf(SortedNames, n)

\* sorted(S) for a set of names
RECURSIVE Sorted(_)
Sorted(S) ==
  IF S = {} THEN <<>>
  ELSE LET m == CHOOSE x \in S : \A y \in S : Rank(x) <= Rank(y)
       IN <<m>> \o Sorted(S \ {m})

----------------------------------------------------------------------------
(* dependency.py: the graph *)

\* self.adj.get(n, [])
AdjGet(a, n) == IF n \in DOMAIN a THEN a[n] ELSE <<>>

\* DependencyGraph.edges(): every (source, dependency, requirement), as a set
edges(a) == UNION {{<<n, a[n][i][1], a[n][i][2]>> : i \in 1..Len(a[n])} : n \in DOMAIN a}

\* the entries of the edge lists: <<source, position>>
EdgeSlots(a) == UNION {{<<n, i>> : i \in 1..Len(a[n])} : n \in DOMAIN a}

NumEdges(a) == Cardinality(EdgeSlots(a))

\* ---- topological_sort: Kahn's algorithm over adj, in the iteration order
\* perm of the set nodes

\* the first loop: the dependencies outside nodes
topo_missing(a, nodes) ==
  {e[2] : e \in {x \in edges(a) : x[1] \in nodes}} \ nodes

\* the first loop: indeg[dst], the number of edges into dst from nodes
topo_indeg(a, nodes) ==
  [n \in nodes |-> Cardinality({sl \in EdgeSlots(a) : sl[1] \in nodes /\ a[sl[1]][sl[2]][1] = n})]

\* the inner loop of the while: every edge of n lowers its target's count,
\* and a target that reaches zero joins the queue
RECURSIVE topo_relax(_, _, _, _, _)
topo_relax(es, i, nodes, q, indeg) ==
  IF i > Len(es) THEN [q |-> q, indeg |-> indeg]
  ELSE LET dst == es[i][1] IN
       IF dst \notin nodes THEN topo_relax(es, i + 1, nodes, q, indeg)
       ELSE LET d == indeg[dst] - 1 IN
            topo_relax(es, i + 1, nodes,
                       IF d = 0 THEN Append(q, dst) ELSE q,
                       [indeg EXCEPT ![dst] = d])

\* the while loop: pop the head of the queue, append it to the order
RECURSIVE topo_loop(_, _, _, _, _)
topo_loop(a, nodes, q, order, indeg) ==
  IF q = <<>> THEN order
  ELSE LET n == Head(q)
           r == topo_relax(AdjGet(a, n), 1, nodes, Tail(q), indeg)
       IN topo_loop(a, nodes, r.q, Append(order, n), r.indeg)

\* q = deque([n for n, d in indeg.items() if d == 0])
topo_seed(perm, indeg) == SelectSeq(perm, LAMBDA n : indeg[n] = 0)

\* ---- _find_cycles: depth-first search with the recursion stack

RECURSIVE dfs(_, _, _, _), dfs_edges(_, _, _, _, _)
dfs(a, nodes, u, st) ==
  LET st1 == [visited |-> st.visited \cup {u},
              stack |-> Append(st.stack, u),
              cycles |-> st.cycles]
      st2 == dfs_edges(a, nodes, u, 1, st1)
  IN [st2 EXCEPT !.stack = SubSeq(st2.stack, 1, Len(st2.stack) - 1)]

\* a variant that reports the whole stack, for C3
cycle_slice_whole_stack(stack, v) == stack

\* cycles.append(stack[idx:].copy())
cycle_slice(stack, v) == SubSeq(stack, IndexOf(stack, v), Len(stack))

dfs_edges(a, nodes, u, i, st) ==
  IF i > Len(AdjGet(a, u)) THEN st
  ELSE LET v == AdjGet(a, u)[i][1] IN
       IF v \notin nodes THEN dfs_edges(a, nodes, u, i + 1, st)
       ELSE IF v \notin st.visited THEN dfs_edges(a, nodes, u, i + 1, dfs(a, nodes, v, st))
       ELSE IF v \in Range(st.stack)
            THEN dfs_edges(a, nodes, u, i + 1,
                           [st EXCEPT !.cycles = Append(@, cycle_slice(st.stack, v))])
            ELSE dfs_edges(a, nodes, u, i + 1, st)

\* for n in nodes: if n not in visited: dfs(n)
RECURSIVE find_cycles_from(_, _, _, _, _)
find_cycles_from(a, nodes, perm, i, st) ==
  IF i > Len(perm) THEN st.cycles
  ELSE IF perm[i] \in st.visited THEN find_cycles_from(a, nodes, perm, i + 1, st)
  ELSE find_cycles_from(a, nodes, perm, i + 1, dfs(a, nodes, perm[i], st))

find_cycles(a, perm) ==
  find_cycles_from(a, Range(perm), perm, 1, [visited |-> {}, stack |-> <<>>, cycles |-> <<>>])

\* a variant that never sees an incomplete order, for C4
order_incomplete_never(order, nodes) == Len(order) > Cardinality(nodes)

\* if len(order) != len(nodes)
order_incomplete(order, nodes) == Len(order) # Cardinality(nodes)

\* a variant in which the ready dependencies of a node join the queue in the
\* iteration order of the set nodes, for C33
RECURSIVE edges_in_set_order(_, _, _)
edges_in_set_order(es, perm, i) ==
  IF i > Len(perm) THEN <<>>
  ELSE SelectSeq(es, LAMBDA e : e[1] = perm[i]) \o edges_in_set_order(es, perm, i + 1)

topological_sort_ties_in_set_order(a, perm) ==
  LET nodes == Range(perm)
      a2 == [n \in DOMAIN a |-> edges_in_set_order(a[n], perm, 1)]
      indeg == topo_indeg(a2, nodes)
      order == topo_loop(a2, nodes, topo_seed(perm, indeg), <<>>, indeg)
  IN [order |-> order,
      cycles |-> IF order_incomplete(order, nodes) THEN find_cycles(a, perm) ELSE <<>>,
      missing |-> Sorted(topo_missing(a, nodes))]

topological_sort(a, perm) ==
  LET nodes == Range(perm)
      indeg == topo_indeg(a, nodes)
      order == topo_loop(a, nodes, topo_seed(perm, indeg), <<>>, indeg)
  IN [order |-> order,
      cycles |-> IF order_incomplete(order, nodes) THEN find_cycles(a, perm) ELSE <<>>,
      missing |-> Sorted(topo_missing(a, nodes))]

\* ---- detect_conflicts, in the iteration order perm of the set nodes

\* reqs: the (parent, requirement) of every edge into n, parents in perm order
RECURSIVE reqs_on(_, _, _, _)
reqs_on(a, perm, i, n) ==
  IF i > Len(perm) THEN <<>>
  ELSE LET es == SelectSeq(AdjGet(a, perm[i]), LAMBDA e : e[1] = n)
       IN [k \in 1..Len(es) |-> <<perm[i], es[k][2]>>] \o reqs_on(a, perm, i + 1, n)

\* Python's truth value of a requirement: None and "" are false
Truthy(r) == r # None /\ r # ""

\* a variant without the comparison of the two requirements, for C6
conflicting_any_two(r1, r2) == Truthy(r1) /\ Truthy(r2)

\* if r1 and r2 and r1 != r2
conflicting(r1, r2) == Truthy(r1) /\ Truthy(r2) /\ r1 # r2

\* the two nested loops over i < j
RECURSIVE conflict_pairs(_, _, _, _)
conflict_pairs(n, reqs, i, j) ==
  IF i > Len(reqs) THEN <<>>
  ELSE IF j > Len(reqs) THEN conflict_pairs(n, reqs, i + 1, i + 2)
  ELSE (IF conflicting(reqs[i][2], reqs[j][2])
        THEN <<[node |-> n, requirements |-> <<reqs[i], reqs[j]>>]>>
        ELSE <<>>) \o conflict_pairs(n, reqs, i, j + 1)

RECURSIVE detect_conflicts_from(_, _, _)
detect_conflicts_from(a, perm, i) ==
  IF i > Len(perm) THEN <<>>
  ELSE conflict_pairs(perm[i], reqs_on(a, perm, 1, perm[i]), 1, 2)
       \o detect_conflicts_from(a, perm, i + 1)

detect_conflicts(a, perm) == detect_conflicts_from(a, perm, 1)

\* ---- reverse_dependencies

\* _build_reverse_cache: r[dst] = the sources of the edges into dst
build_reverse_cache(a) ==
  [d \in {e[2] : e \in edges(a)} |-> {e[1] : e \in {x \in edges(a) : x[2] = d}}]

\* the breadth-first loop.  The parents of cur are a set: the order in which
\* they join the queue is an iteration order, taken here sorted (the set out
\* that the loop ends with does not depend on it).
RECURSIVE rev_bfs(_, _, _, _)
rev_bfs(cache, q, out, recursive) ==
  IF q = <<>> THEN out
  ELSE LET cur == Head(q)
           ps == IF cur \in DOMAIN cache THEN cache[cur] ELSE {}
           new == ps \ out
       IN rev_bfs(cache, Tail(q) \o (IF recursive THEN Sorted(new) ELSE <<>>),
                  out \cup new, recursive)

\* a variant that sorts in descending order, for C8
rev_result_descending(out) == Reverse(Sorted(out))

\* return sorted(out)
rev_result(out) == Sorted(out)

reverse_dependencies(a, name, recursive) ==
  rev_result(rev_bfs(build_reverse_cache(a), <<name>>, {}, recursive))

\* self._reverse_cache of a graph object: None (built is FALSE), or the index
\* r that _build_reverse_cache stored
NoCache == [built |-> FALSE, r |-> <<>>]

\* a variant in which remove_edge leaves the index in place, for C32
reverse_cache_kept_by_remove_edge(op, cache) ==
  IF op = "remove_edge" THEN cache ELSE NoCache

\* self._reverse_cache = None: the statement that add_node, add_edge (through
\* its two add_node calls), remove_node and remove_edge all execute
reverse_cache_after(op, cache) == NoCache

\* reverse_dependencies(name, recursive) on an object whose _reverse_cache is
\* cache: the index is built only when it is None, and stays on the object
reverse_dependencies_on(cache, a, name, recursive) ==
  LET c == IF ~cache.built THEN [built |-> TRUE, r |-> build_reverse_cache(a)]
           ELSE cache
  IN [cache |-> c, out |-> rev_result(rev_bfs(c.r, <<name>>, {}, recursive))]

\* ---- resolve

\* gather reachable nodes: the while loop over the stack
RECURSIVE gather(_, _, _)
gather(a, stack, visited) ==
  IF stack = <<>> THEN visited
  ELSE LET n == stack[Len(stack)]
           rest == SubSeq(stack, 1, Len(stack) - 1)
       IN IF n \in visited THEN gather(a, rest, visited)
          ELSE gather(a, rest \o [k \in 1..Len(AdjGet(a, n)) |-> AdjGet(a, n)[k][1]],
                      visited \cup {n})

reachable(a, root) == gather(a, <<root>>, {})

\* a variant that keeps the order of topological_sort, for C2
install_order_unreversed(order) == order

\* install_order = list(reversed(order))
install_order(order) == Reverse(order)

\* the order returned with "conflicts detected": topo.get("order", [])
conflict_order(order) == order

\* resolve(root): permT is the iteration order of the set built in
\* topological_sort, permC that of the set built in detect_conflicts
resolve(a, root, permT, permC) ==
  IF root \notin DOMAIN a
  THEN [ok |-> FALSE, message |-> "root not in graph", order |-> <<>>,
        missing |-> <<>>, cycles |-> <<>>, conflicts |-> <<>>]
  ELSE LET topo == topological_sort(a, permT)
           conflicts == detect_conflicts(a, permC)
       IN IF topo.cycles # <<>>
          THEN [ok |-> FALSE, message |-> "cycles detected", order |-> topo.order,
                missing |-> topo.missing, cycles |-> topo.cycles, conflicts |-> <<>>]
          ELSE IF conflicts # <<>>
          THEN [ok |-> FALSE, message |-> "conflicts detected",
                order |-> conflict_order(topo.order),
                missing |-> topo.missing, cycles |-> <<>>, conflicts |-> conflicts]
          ELSE [ok |-> TRUE, message |-> "", order |-> install_order(topo.order),
                missing |-> topo.missing, cycles |-> <<>>, conflicts |-> <<>>]

----------------------------------------------------------------------------
(* dependency.py: versions and requirements.  A str is the sequence of its *)
(* characters here, so that splitting, digit tests and comparisons are      *)
(* computed; NoneStr stands for None where a str is expected.               *)

NoneStr == <<None>>

\* the characters of the version and requirement strings that the graphs
\* and the packages of the model hold as whole strings
Chars(s) ==
  CASE s = None -> NoneStr
    [] s = "1.0" -> <<"1", ".", "0">>
    [] s = "2.0" -> <<"2", ".", "0">>
    [] s = "9.0" -> <<"9", ".", "0">>
    [] s = "10.0" -> <<"1", "0", ".", "0">>
    [] s = ">=1.0" -> <<">", "=", "1", ".", "0">>
    [] s = "<2.0" -> <<"<", "2", ".", "0">>
    [] s = "==2.0" -> <<"=", "=", "2", ".", "0">>

\* ord(c) of the characters of the model
Ord(c) ==
  CASE c = " " -> 32 [] c = "!" -> 33 [] c = "." -> 46
    [] c = "0" -> 48 [] c = "1" -> 49 [] c = "2" -> 50 [] c = "3" -> 51
    [] c = "4" -> 52 [] c = "5" -> 53 [] c = "6" -> 54 [] c = "7" -> 55
    [] c = "8" -> 56 [] c = "9" -> 57
    [] c = "<" -> 60 [] c = "=" -> 61 [] c = ">" -> 62
    [] c = "a" -> 97 [] c = "b" -> 98 [] c = "x" -> 120

\* str < str: the first differing character decides, a proper prefix is less
RECURSIVE str_lt_from(_, _, _)
str_lt_from(s, t, i) ==
  IF i > Len(s) THEN i <= Len(t)
  ELSE IF i > Len(t) THEN FALSE
  ELSE IF s[i] = t[i] THEN str_lt_from(s, t, i + 1)
  ELSE Ord(s[i]) < Ord(t[i])

str_lt(s, t) == str_lt_from(s, t, 1)

\* s.split(".")
RECURSIVE split_from(_, _, _, _)
split_from(s, i, cur, out) ==
  IF i > Len(s) THEN Append(out, cur)
  ELSE IF s[i] = "." THEN split_from(s, i + 1, <<>>, Append(out, cur))
  ELSE split_from(s, i + 1, Append(cur, s[i]), out)

split(s) == split_from(s, 1, <<>>, <<>>)

\* p.isdigit()
isdigit(p) == p # <<>> /\ \A i \in 1..Len(p) : Ord(p[i]) \in 48..57

\* int(p) of a string of digits
RECURSIVE int_from(_, _, _)
int_from(p, i, acc) ==
  IF i > Len(p) THEN acc ELSE int_from(p, i + 1, acc * 10 + (Ord(p[i]) - 48))

int(p) == int_from(p, 1, 0)

\* s.strip(): the blanks at both ends go
RECURSIVE strip(_)
strip(s) ==
  IF s = <<>> THEN s
  ELSE IF s[1] = " " THEN strip(SubSeq(s, 2, Len(s)))
  ELSE IF s[Len(s)] = " " THEN strip(SubSeq(s, 1, Len(s) - 1))
  ELSE s

startswith(s, p) == Len(p) <= Len(s) /\ SubSeq(s, 1, Len(p)) = p

\* the operators in the order in which parse_requirement tries them
ReqOps == << <<">", "=">>, <<"<", "=">>, <<"=", "=">>, <<"!", "=">>, <<">">>, <<"<">> >>

\* parse_requirement(req) for a str: (op, value), "==" when no operator
\* starts the string
RECURSIVE parse_requirement_from(_, _)
parse_requirement_from(s, i) ==
  IF i > Len(ReqOps) THEN [op |-> <<"=", "=">>, rval |-> s]
  ELSE IF startswith(s, ReqOps[i])
  THEN [op |-> ReqOps[i], rval |-> strip(SubSeq(s, Len(ReqOps[i]) + 1, Len(s)))]
  ELSE parse_requirement_from(s, i + 1)

parse_requirement(req) == parse_requirement_from(strip(req), 1)

\* _parse_ver without the packaging module: the tuple of the segments, an
\* int for a segment of digits and the str otherwise
_parse_ver(s) ==
  LET parts == split(s)
  IN [i \in 1..Len(parts) |->
        IF isdigit(parts[i]) THEN [int |-> TRUE, n |-> int(parts[i]), s |-> <<>>]
        ELSE [int |-> FALSE, n |-> 0, s |-> parts[i]]]

\* x op y for two values of one ordered type, lt saying x < y and eq x == y
op_holds(op, lt, eq) ==
  CASE op = <<"=", "=">> -> eq
    [] op = <<"!", "=">> -> ~eq
    [] op = <<">">> -> ~lt /\ ~eq
    [] op = <<"<">> -> lt
    [] op = <<">", "=">> -> ~lt
    [] op = <<"<", "=">> -> lt \/ eq

\* tuple op tuple: the first position where the items differ decides, by the
\* comparison of the two items, which raises TypeError for an int and a str;
\* == and != need no ordering; without such a position the lengths decide
tuple_compare(a, b, op) ==
  LET diff == {i \in 1..Len(a) : i <= Len(b) /\ a[i] # b[i]}
  IN IF diff = {} THEN
       IF op_holds(op, Len(a) < Len(b), Len(a) = Len(b)) THEN "True" ELSE "False"
     ELSE IF op \in {<<"=", "=">>, <<"!", "=">>} THEN
       IF op_holds(op, FALSE, FALSE) THEN "True" ELSE "False"
     ELSE LET i == CHOOSE k \in diff : \A j \in diff : k <= j
              x == a[i]
              y == b[i]
          IN IF x.int # y.int THEN "TypeError"
             ELSE IF x.int
             THEN IF op_holds(op, x.n < y.n, FALSE) THEN "True" ELSE "False"
             ELSE IF op_holds(op, str_lt(x.s, y.s), FALSE) THEN "True" ELSE "False"

\* _parse_ver with the packaging module: Version(s), or None for a string
\* that is no version.  Of the strings of the model, dotted digits are a
\* release and a last segment a or b makes a pre-release of it.
_parse_ver_packaging(s) ==
  LET parts == split(s)
      n == Len(parts)
      pre == IF n >= 2 /\ parts[n] \in {<<"a">>, <<"b">>} THEN parts[n][1] ELSE ""
      rel == IF pre = "" THEN parts ELSE SubSeq(parts, 1, n - 1)
  IN IF \A i \in 1..Len(rel) : isdigit(rel[i])
     THEN [valid |-> TRUE, release |-> [i \in 1..Len(rel) |-> int(rel[i])], pre |-> pre]
     ELSE [valid |-> FALSE, release |-> <<>>, pre |-> ""]

\* the release without its trailing zeros, as Version compares it
RECURSIVE release_key(_)
release_key(rel) ==
  IF rel # <<>> /\ rel[Len(rel)] = 0 THEN release_key(SubSeq(rel, 1, Len(rel) - 1))
  ELSE rel

\* Version < Version: the releases decide, then a pre-release is less than
\* the release itself and a is less than b
version_lt(v, w) ==
  LET a == release_key(v.release)
      b == release_key(w.release)
      diff == {i \in 1..Len(a) : i <= Len(b) /\ a[i] # b[i]}
  IN IF diff # {} THEN LET i == CHOOSE k \in diff : \A j \in diff : k <= j
                       IN a[i] < b[i]
     ELSE IF Len(a) # Len(b) THEN Len(a) < Len(b)
     ELSE IF v.pre = w.pre THEN FALSE
     ELSE IF v.pre = "" THEN FALSE
     ELSE IF w.pre = "" THEN TRUE
     ELSE Ord(v.pre) < Ord(w.pre)

version_eq(v, w) == ~version_lt(v, w) /\ ~version_lt(w, v)

\* satisfies(candidate_version, requirement); packaging says whether the
\* packaging module was importable when dependency.py was loaded
satisfies(candidate_version, requirement, packaging) ==
  IF requirement = NoneStr THEN TRUE
  ELSE IF candidate_version = NoneStr THEN FALSE
  ELSE LET r == parse_requirement(requirement) IN
       IF packaging
       THEN LET pv_c == _parse_ver_packaging(candidate_version)
                pv_r == _parse_ver_packaging(r.rval)
            IN IF ~pv_c.valid \/ ~pv_r.valid
               THEN IF r.op = <<"=", "=">> THEN candidate_version = r.rval
                    ELSE IF r.op = <<"!", "=">> THEN candidate_version # r.rval
                    ELSE FALSE
               ELSE op_holds(r.op, version_lt(pv_c, pv_r), version_eq(pv_c, pv_r))
       ELSE tuple_compare(_parse_ver(candidate_version), _parse_ver(r.rval), r.op) = "True"

----------------------------------------------------------------------------
(* dependency.py: mutations.  A graph g is [adj, meta]; meta[name] is the   *)
(* metadata dict of the node, a function from its keys to their values.    *)

EmptyFn == [x \in {} |-> None]

EmptyGraph == [adj |-> EmptyFn, meta |-> EmptyFn]

\* m[key] = value
DictSet(m, key, value) == [k \in DOMAIN m \cup {key} |-> IF k = key THEN value ELSE m[k]]

\* del m[key]
DictDel(m, key) == [k \in DOMAIN m \ {key} |-> m[k]]

\* add_node(name, version=...): the other metadata keywords are left at
\* their defaults
add_node(g, name, version) ==
  LET a == IF name \in DOMAIN g.adj THEN g.adj ELSE DictSet(g.adj, name, <<>>)
      m0 == IF name \in DOMAIN g.meta THEN g.meta[name] ELSE EmptyFn
      m == IF version # None THEN DictSet(m0, "version", version) ELSE m0
  IN [adj |-> a, meta |-> DictSet(g.meta, name, m)]

\* m.setdefault(key, []).extend(x for x in xs if x not in m.get(key, [])):
\* the generator runs while the list grows
RECURSIVE extend_new(_, _, _)
extend_new(old, xs, i) ==
  IF i > Len(xs) THEN old
  ELSE extend_new(IF xs[i] \in Range(old) THEN old ELSE Append(old, xs[i]), xs, i + 1)

\* if xs: m.setdefault(key, []).extend(...)
extend_field(m, key, xs) ==
  IF xs = <<>> THEN m
  ELSE DictSet(m, key, extend_new(IF key \in DOMAIN m THEN m[key] ELSE <<>>, xs, 1))

\* a variant in which a supplied list replaces the list of the field, for C34
add_node_kw_replacing_lists(g, name, kw) ==
  LET a == IF name \in DOMAIN g.adj THEN g.adj ELSE DictSet(g.adj, name, <<>>)
      m0 == IF name \in DOMAIN g.meta THEN g.meta[name] ELSE EmptyFn
      m1 == IF kw.version # None THEN DictSet(m0, "version", kw.version) ELSE m0
      m2 == IF kw.provides # <<>> THEN DictSet(m1, "provides", kw.provides) ELSE m1
      m3 == IF kw.conflicts # <<>> THEN DictSet(m2, "conflicts", kw.conflicts) ELSE m2
      m4 == IF kw.replaces # <<>> THEN DictSet(m3, "replaces", kw.replaces) ELSE m3
      m5 == IF Truthy(kw.source) THEN DictSet(m4, "source", kw.source) ELSE m4
      m6 == IF Truthy(kw.port_path) THEN DictSet(m5, "port_path", kw.port_path) ELSE m5
      m7 == IF kw.available_versions # <<>>
            THEN DictSet(m6, "available_versions", kw.available_versions) ELSE m6
  IN [adj |-> a, meta |-> DictSet(g.meta, name, m7)]

\* add_node(name, version, provides, conflicts, replaces, source, port_path,
\* available_versions), the keywords given as the record kw
add_node_kw(g, name, kw) ==
  LET a == IF name \in DOMAIN g.adj THEN g.adj ELSE DictSet(g.adj, name, <<>>)
      m0 == IF name \in DOMAIN g.meta THEN g.meta[name] ELSE EmptyFn
      m1 == IF kw.version # None THEN DictSet(m0, "version", kw.version) ELSE m0
      m2 == extend_field(m1, "provides", kw.provides)
      m3 == extend_field(m2, "conflicts", kw.conflicts)
      m4 == extend_field(m3, "replaces", kw.replaces)
      m5 == IF Truthy(kw.source) THEN DictSet(m4, "source", kw.source) ELSE m4
      m6 == IF Truthy(kw.port_path) THEN DictSet(m5, "port_path", kw.port_path) ELSE m5
      m7 == IF kw.available_versions # <<>>
            THEN DictSet(m6, "available_versions", kw.available_versions) ELSE m6
  IN [adj |-> a, meta |-> DictSet(g.meta, name, m7)]

\* a variant that finds no duplicate, for C10
is_duplicate_never(es, dep, requirement) == FALSE

\* the loop of add_edge: an entry with this dependency and this requirement
is_duplicate(es, dep, requirement) ==
  \E i \in 1..Len(es) : es[i][1] = dep /\ es[i][2] = requirement

add_edge(g, pkg, dep, requirement) ==
  LET g1 == add_node(add_node(g, pkg, None), dep, None) IN
  IF is_duplicate(g1.adj[pkg], dep, requirement) THEN g1
  ELSE [g1 EXCEPT !.adj[pkg] = Append(@, <<dep, requirement>>)]

\* a variant that leaves the edges into the removed node, for C37
remove_node_keeping_edges(g, name) ==
  [adj |-> DictDel(g.adj, name), meta |-> DictDel(g.meta, name)]

remove_node(g, name) ==
  LET a == DictDel(g.adj, name) IN
  [adj |-> [k \in DOMAIN a |-> SelectSeq(a[k], LAMBDA e : e[1] # name)],
   meta |-> DictDel(g.meta, name)]

remove_edge(g, pkg, dep) ==
  IF pkg \in DOMAIN g.adj
  THEN [g EXCEPT !.adj[pkg] = SelectSeq(@, LAMBDA e : e[1] # dep)]
  ELSE g

----------------------------------------------------------------------------
(* dependency.py: persistence.  A JSON value is tagged with its type: a     *)
(* string is [t |-> "string", v |-> s], null is [t |-> "null", v |-> ""];  *)
(* an array is a sequence and an object a function from its keys.          *)

JStr(s) == [t |-> "string", v |-> s]
JNull == [t |-> "null", v |-> ""]

\* json.dumps of a str or None
json_dump(x) == IF x = None THEN JNull ELSE JStr(x)

\* a variant that reads null as the empty string, for C9
json_load_null_as_empty(j) == j.v

\* json.loads of a string or null
json_load(j) == IF j.t = "null" THEN None ELSE j.v

\* the "adj" and "meta" members written by _save and export_json: each edge
\* tuple becomes the array [dep, requirement]
dump_adj(a) == [k \in DOMAIN a |-> [i \in 1..Len(a[k]) |-> <<json_dump(a[k][i][1]), json_dump(a[k][i][2])>>]]
dump_meta(m) == [k \in DOMAIN m |-> [f \in DOMAIN m[k] |-> json_dump(m[k][f])]]

\* _save: data = {"adj": ..., "meta": ..., "saved_at": time.time()}
save_doc(g) == [adj |-> dump_adj(g.adj), meta |-> dump_meta(g.meta), saved_at |-> "time"]

\* export_json: data = {"adj": ..., "meta": ...}
export_doc(g) == [adj |-> dump_adj(g.adj), meta |-> dump_meta(g.meta)]

\* _load: {k: [(d, req) for d, req in v]} and j.get("meta", {})
load_adj(ja) == [k \in DOMAIN ja |-> [i \in 1..Len(ja[k]) |-> <<json_load(ja[k][i][1]), json_load(ja[k][i][2])>>]]
load_meta(jm) == [k \in DOMAIN jm |-> [f \in DOMAIN jm[k] |-> json_load(jm[k][f])]]
load_doc(doc) == [adj |-> load_adj(doc.adj), meta |-> load_meta(doc.meta)]

\* the persist file: absent, or holding a document
NoFile == [exists |-> FALSE, doc |-> export_doc(EmptyGraph)]
FileOf(doc) == [exists |-> TRUE, doc |-> doc]

----------------------------------------------------------------------------
(* dependency.py, build.py and core.py: the ports tree and the build        *)
(* orchestrators.  ports[name] is the port file of the package: its file    *)
(* name, its version and its depends list, each item already split into     *)
(* <<name, requirement>>.  installed maps the installed names to versions.  *)
(* A call works on s = [installed, file, ran, installs]: the installed db, *)
(* deps.json, the list of the packages whose build pipeline was started     *)
(* and the list of the packages whose files were installed.  Its inputs     *)
(* are env = [ports, broken, perm, dry_run]: the ports tree, the packages   *)
(* whose pipeline fails, the iteration order of the sets of names and the   *)
(* dry_run argument of the call.                                            *)

RECURSIVE load_depends(_, _, _, _)
load_depends(g, name, deps, i) ==
  IF i > Len(deps) THEN g
  ELSE load_depends(add_edge(g, name, deps[i][1], deps[i][2]), name, deps, i + 1)

RECURSIVE load_ports_from(_, _, _, _)
load_ports_from(g, ps, names, i) ==
  IF i > Len(names) THEN g
  ELSE LET g1 == add_node(g, names[i], ps[names[i]].version)
       IN load_ports_from(load_depends(g1, names[i], ps[names[i]].depends, 1),
                          ps, names, i + 1)

\* load_ports_tree scans for the files named Portfile.yaml; the graph it
\* builds does not depend on the order of the scan
load_ports_tree(g, ps) ==
  load_ports_from(g, ps, Sorted({n \in DOMAIN ps : ps[n].file = "Portfile.yaml"}), 1)

\* build.py: the pipeline of build_one from sandbox.build_port to
\* register_installed; install_package is not called
pipeline(name, s, env) ==
  IF name \in env.broken
  THEN [ok |-> FALSE, s |-> [s EXCEPT !.ran = Append(@, name)]]
  ELSE [ok |-> TRUE,
        s |-> [s EXCEPT !.ran = Append(@, name),
                        !.installed = DictSet(@, name, env.ports[name].version)]]

\* core.py: install_package(pkg, sandbox=sb, force=force, dry_run=dry_run).
\* install_package takes no keyword sandbox, so the call raises TypeError
\* before the body of install_package runs
core_install_call(name) == [raised |-> TRUE, status |-> "error"]

\* a variant that takes its arguments in the order of the callers, for C39
run_hook_as_called(hook, port) == [raised |-> FALSE]

\* hooks.py: run_hook(hook, port, sandbox) starts with port.get("name", ...),
\* which raises AttributeError when port is a str

run_hook(hook, port) == [raised |-> port.type # "dict"]

\* the pipeline of Core.build from the sandbox to the record in the installed
\* db.  Its first step is run_hook(meta, "pre_build_start", sb), which hands
\* the metadata as the hook and the hook name as the port.  The install is
\* called unless dry_run, and its result is not looked at
core_pipeline(name, s, env) ==
  LET s1 == [s EXCEPT !.ran = Append(@, name)]
      hook == run_hook([type |-> "dict"], [type |-> "str"])
      inst == core_install_call(name)
      s2 == IF ~env.dry_run /\ inst.status = "ok"
            THEN [s1 EXCEPT !.installs = Append(@, name)] ELSE s1
  IN IF name \in env.broken THEN [ok |-> FALSE, s |-> s1]
     ELSE IF hook.raised THEN [ok |-> FALSE, s |-> s1]
     ELSE IF ~env.dry_run /\ inst.raised THEN [ok |-> FALSE, s |-> s1]
     ELSE [ok |-> TRUE,
           s |-> [s2 EXCEPT !.installed = DictSet(@, name, env.ports[name].version)]]

\* core.py: Core.build(portname, force, dry_run)
RECURSIVE core_build(_, _, _, _)
RECURSIVE core_build_deps(_, _, _, _, _, _)
core_build(name, force, s, env) ==
  IF ~(name \in DOMAIN env.ports /\ env.ports[name].file = "Portfile.yaml")
  THEN [ok |-> FALSE, s |-> s]
  ELSE IF name \in DOMAIN s.installed /\ ~force
  THEN [ok |-> TRUE, s |-> s]
  ELSE LET dg == load_ports_tree(IF s.file.exists THEN load_doc(s.file.doc) ELSE EmptyGraph,
                                 env.ports)
           s1 == [s EXCEPT !.file = FileOf(save_doc(dg))]
           perm == SelectSeq(env.perm, LAMBDA n : n \in reachable(dg.adj, name))
           r == resolve(dg.adj, name, perm, perm)
       IN IF ~r.ok THEN [ok |-> FALSE, s |-> s1]
          ELSE LET d == core_build_deps(r.order, 1, name, force, s1, env)
               IN IF ~d.ok THEN d ELSE core_pipeline(name, d.s, env)

\* a loop over the dependencies that goes on after a failed build
core_build_deps_continues(order, i, name, force, s, env) ==
  IF i > Len(order) THEN [ok |-> TRUE, s |-> s]
  ELSE IF order[i] = name THEN core_build_deps(order, i + 1, name, force, s, env)
  ELSE core_build_deps(order, i + 1, name, force, core_build(order[i], force, s, env).s, env)

core_build_deps(order, i, name, force, s, env) ==
  IF i > Len(order) THEN [ok |-> TRUE, s |-> s]
  ELSE IF order[i] = name THEN core_build_deps(order, i + 1, name, force, s, env)
  ELSE LET d == core_build(order[i], force, s, env)
       IN IF ~d.ok THEN d ELSE core_build_deps(order, i + 1, name, force, d.s, env)

\* build.py: build_dependency_graph returns dependency.build_graph_from_portfiles
\* when dependency.py defines it, which it does not: the graph is the
\* fallback _G, whose install_order returns the targets
fallback_install_order(targets) == targets

resolve_install_order(target) ==
  LET order == fallback_install_order(<<target>>)
  IN IF target \notin Range(order) THEN Append(order, target) ELSE order

\* build.py scans for the files named portfile.yaml
find_portfile_for(ps, name) == name \in DOMAIN ps /\ ps[name].file = "portfile.yaml"

build_one(name, s, env) ==
  IF ~find_portfile_for(env.ports, name) THEN [ok |-> FALSE, s |-> s]
  ELSE pipeline(name, s, env)

is_installed_never(db, name) == FALSE

is_installed(db, name) == name \in DOMAIN db

\* the loop of build.py: build(target, options)
RECURSIVE build_loop(_, _, _, _, _, _)
build_loop(order, i, force, built, s, env) ==
  IF i > Len(order) THEN [built |-> built, failed |-> {}, s |-> s]
  ELSE IF ~force /\ is_installed(s.installed, order[i])
  THEN build_loop(order, i + 1, force, built, s, env)
  ELSE LET r == build_one(order[i], s, env)
       IN IF r.ok THEN build_loop(order, i + 1, force, Append(built, order[i]), r.s, env)
          ELSE [built |-> built, failed |-> {order[i]}, s |-> r.s]

build(target, force, s, env) ==
  build_loop(resolve_install_order(target), 1, force, <<>>, s, env)

----------------------------------------------------------------------------
(* install.py: the host file system and install_package.  fs maps the paths *)
(* that exist to their entries [type, content]: a regular file with its     *)
(* content, or a symlink with its target.  The symlinks of the model point  *)
(* to regular files outside the modelled paths, whose content is not kept.  *)
(* A package file is [name, version, depends, entries], entries mapping the *)
(* paths below data/ to what the package holds there.                      *)

File(c) == [type |-> "file", content |-> c]
Symlink(t) == [type |-> "symlink", content |-> t]

\* "__symlink__::" + target, the text backup_existing_files stores for a link
Placeholder(t) == IF t = "s" THEN "__symlink__::s" ELSE "__symlink__::t"
IsPlaceholder(c) == c \in {Placeholder("s"), Placeholder("t")}
PlaceholderTarget(c) == IF c = Placeholder("s") THEN "s" ELSE "t"

\* b.read_text(encoding="utf-8") raises on bytes that are not UTF-8
decodes_utf8(c) == c # NotUtf8

\* sorted(copy_root.rglob("*")) and list_files_from_extracted
SortedPaths(S) == SelectSeq(<<"/a", "/a/b", "/a/b/f", "/a/g", "/x", "/y">>,
                            LAMBDA q : q \in S)
list_files_from_extracted(pkg) == SortedPaths(DOMAIN pkg.entries)

\* the version comparison of install_package, installed_version > version:
\* Python's order of the two strings
version_greater(v, w) == str_lt(Chars(w), Chars(v))

\* backup_existing_files: a pair <<orig, backup>> per path that exists
RECURSIVE backup_existing_files(_, _, _)
backup_existing_files(fsys, paths, i) ==
  IF i > Len(paths) THEN <<>>
  ELSE LET f == paths[i]
           rest == backup_existing_files(fsys, paths, i + 1)
       IN IF f \notin DOMAIN fsys THEN rest
          ELSE IF fsys[f].type = "symlink"
          THEN << <<f, File(Placeholder(fsys[f].content))>> >> \o rest
          ELSE << <<f, fsys[f]>> >> \o rest

\* shutil.copy2(src, dest) of a regular file: a dest that is a symlink is
\* followed, the link itself stays
copy2(fsys, content, dest) ==
  IF dest \in DOMAIN fsys /\ fsys[dest].type = "symlink" THEN fsys
  ELSE DictSet(fsys, dest, File(content))

\* one pair of restore_backup, with its try/except
restore_pair(fsys, orig, bkp) ==
  IF ~decodes_utf8(bkp.content) THEN fsys
  ELSE IF IsPlaceholder(bkp.content)
  THEN DictSet(fsys, orig, Symlink(PlaceholderTarget(bkp.content)))
  ELSE copy2(fsys, bkp.content, orig)

RECURSIVE restore_backup(_, _, _)
restore_backup(fsys, pairs, i) ==
  IF i > Len(pairs) THEN fsys
  ELSE restore_backup(restore_pair(fsys, pairs[i][1], pairs[i][2]), pairs, i + 1)

\* one entry of the copy loop of install_package
copy_entry(fsys, src, dest) ==
  IF src.type = "symlink" THEN DictSet(fsys, dest, Symlink(src.content))
  ELSE copy2(fsys, src.content, dest)

\* the copy loop: the copy of entry number fail_at raises (0: none does)
RECURSIVE copy_entries(_, _, _, _, _, _)
copy_entries(fsys, pkg, paths, i, fail_at, installed_files) ==
  IF i > Len(paths) THEN [ok |-> TRUE, fs |-> fsys, installed_files |-> installed_files]
  ELSE IF i = fail_at THEN [ok |-> FALSE, fs |-> fsys, installed_files |-> installed_files]
  ELSE copy_entries(copy_entry(fsys, pkg.entries[paths[i]], paths[i]), pkg, paths, i + 1,
                    fail_at, Append(installed_files, paths[i]))

\* total_bytes: the sizes of the regular files below data/
RECURSIVE total_bytes(_, _, _)
total_bytes(pkg, paths, i) ==
  IF i > Len(paths) THEN 0
  ELSE (IF pkg.entries[paths[i]].type = "file" THEN FileBytes ELSE 0)
       + total_bytes(pkg, paths, i + 1)

required_bytes_once(total) == total

required_bytes(total) == total * 2

check_disk_space_needed(free, required) == free >= required

\* the confirmation install_package asks for above this many files
ConfirmLimit == 50

\* what a call of install_package returns and leaves: its status and message,
\* the host tree, the ledger and the backup pairs it took
InstallResult(status, message, fsys, db, pairs) ==
  [status |-> status, message |-> message, fs |-> fsys, db |-> db, backup |-> pairs]

\* the except branch of install_package: the rollback, with the ledger as
\* load_installed_db returned it
on_copy_error_keeps_record(fsys, db, pkgname, record, backup_pairs) ==
  InstallResult("error", "copy failed", restore_backup(fsys, backup_pairs, 1),
                DictSet(db, pkgname, record), backup_pairs)

on_copy_error(fsys, db, pkgname, record, backup_pairs) ==
  InstallResult("error", "copy failed", restore_backup(fsys, backup_pairs, 1),
                db, backup_pairs)

\* install_package(pkgfile, force, dry_run, yes) where the disk has o.free
\* bytes free, the user answers o.answer (y or not) to a prompt and the copy
\* of entry o.fail_at raises.  The hooks swallow their own errors.
install_package(fsys, db, pkg, o) ==
  LET pkgname == pkg.name
      known == pkgname \in DOMAIN db /\ ~o.force
      missing == SelectSeq(pkg.depends, LAMBDA d : d \notin DOMAIN db)
      files_to_install == list_files_from_extracted(pkg)
      required == required_bytes(total_bytes(pkg, files_to_install, 1))
      backup_pairs == backup_existing_files(fsys, files_to_install, 1)
      copied == copy_entries(fsys, pkg, files_to_install, 1, o.fail_at, <<>>)
      record == [version |-> pkg.version, files |-> copied.installed_files]
  IN IF known /\ db[pkgname].version = pkg.version
     THEN InstallResult("skipped", "same-version-installed", fsys, db, <<>>)
     ELSE IF known /\ version_greater(db[pkgname].version, pkg.version)
     THEN InstallResult("skipped", "installed-newer", fsys, db, <<>>)
     ELSE IF missing # <<>> /\ ~o.yes /\ ~o.answer
     THEN InstallResult("error", "missing-dependencies", fsys, db, <<>>)
     ELSE IF o.dry_run
     THEN InstallResult("dry-run", "", fsys, db, <<>>)
     ELSE IF ~check_disk_space_needed(o.free, required)
     THEN InstallResult("error", "insufficient-disk-space", fsys, db, <<>>)
     ELSE IF ~o.yes /\ Len(files_to_install) > ConfirmLimit /\ ~o.answer
     THEN InstallResult("cancelled", "user-declined",
                        restore_backup(fsys, backup_pairs, 1), db, backup_pairs)
     ELSE IF ~copied.ok
     THEN on_copy_error(copied.fs, db, pkgname, record, backup_pairs)
     ELSE InstallResult("ok", "", copied.fs, DictSet(db, pkgname, record), backup_pairs)

\* install_package stopped by a KeyboardInterrupt (Ctrl-C).  It is not an
\* Exception, so the except branch with its rollback is passed over and
\* only the finally block runs, which removes the extraction directory.
\* point tells where the call was: before the backup was taken; in the copy
\* loop before entry k, or behind the loop when k is past the last entry;
\* in the write of the ledger, which was truncated by then; behind the
\* write of the ledger; behind the removal of the backup.  backup_dir tells
\* whether the backup directory is on disk afterwards
install_package_interrupted_record_first(fsys, db, pkg, keep_backup, point, k) ==
  LET files_to_install == list_files_from_extracted(pkg)
      backup_pairs == backup_existing_files(fsys, files_to_install, 1)
      copied == copy_entries(fsys, pkg, files_to_install, 1, k, <<>>)
      record == [version |-> pkg.version, files |-> copied.installed_files]
  IN [fs |-> IF point = "before_backup" THEN fsys ELSE copied.fs,
      db |-> IF point = "before_backup" THEN db ELSE DictSet(db, pkg.name, record),
      backup |-> IF point = "before_backup" THEN <<>> ELSE backup_pairs,
      backup_dir |-> point # "before_backup"]

install_package_interrupted(fsys, db, pkg, keep_backup, point, k) ==
  LET files_to_install == list_files_from_extracted(pkg)
      backup_pairs == backup_existing_files(fsys, files_to_install, 1)
      copied == copy_entries(fsys, pkg, files_to_install, 1, k, <<>>)
      done == copy_entries(fsys, pkg, files_to_install, 1, 0, <<>>)
      record == [version |-> pkg.version, files |-> done.installed_files]
  IN CASE point = "before_backup" ->
            [fs |-> fsys, db |-> db, backup |-> <<>>, backup_dir |-> FALSE]
       [] point = "copy" ->
            [fs |-> copied.fs, db |-> db, backup |-> backup_pairs, backup_dir |-> TRUE]
       [] point = "ledger_write" ->
            [fs |-> done.fs, db |-> EmptyFn, backup |-> backup_pairs, backup_dir |-> TRUE]
       [] point = "recorded" ->
            [fs |-> done.fs, db |-> DictSet(db, pkg.name, record), backup |-> backup_pairs,
             backup_dir |-> TRUE]
       [] OTHER ->
            [fs |-> done.fs, db |-> DictSet(db, pkg.name, record), backup |-> backup_pairs,
             backup_dir |-> keep_backup]

----------------------------------------------------------------------------
(* remove.py: remove_package on a host tree with directories.  A directory  *)
(* is an entry of type "dir"; a path exists only below directories.         *)

Dir == [type |-> "dir", content |-> ""]

\* Path(f).parent and the directories above a path
ParentOf(f) ==
  CASE f = "/a/b/f" -> "/a/b"
    [] f \in {"/a/b", "/a/g"} -> "/a"
    [] OTHER -> "/"
Ancestors(f) ==
  CASE f = "/a/b/f" -> {"/a", "/a/b"}
    [] f \in {"/a/b", "/a/g"} -> {"/a"}
    [] OTHER -> {}

\* the paths of the tree at f and below it
Subtree(fsys, f) == {q \in DOMAIN fsys : q = f \/ f \in Ancestors(q)}

\* p.unlink() of a file or link, shutil.rmtree(p) of a directory
rm(fsys, f) == [q \in DOMAIN fsys \ Subtree(fsys, f) |-> fsys[q]]

\* shutil.copy2 and shutil.copytree read a symlink through: the copy is a
\* regular file with the data of the link's target
copied_entry(e) == IF e.type = "symlink" THEN File(LinkedData) ELSE e

\* backup_files: the copies below backup_dir, by the path they are copies
\* of.  copytree onto a directory that an earlier copytree made raises,
\* which backup_files only logs
RECURSIVE backup_files(_, _, _, _)
backup_files(fsys, files, i, bkp) ==
  IF i > Len(files) THEN bkp
  ELSE LET f == files[i] IN
       IF f \notin DOMAIN fsys THEN backup_files(fsys, files, i + 1, bkp)
       ELSE IF fsys[f].type = "dir" /\ f \in DOMAIN bkp
       THEN backup_files(fsys, files, i + 1, bkp)
       ELSE backup_files(fsys, files, i + 1,
              [q \in DOMAIN bkp \cup Subtree(fsys, f) |->
                 IF q \in Subtree(fsys, f) THEN copied_entry(fsys[q]) ELSE bkp[q]])

\* a delete loop that unlinks files and links and passes over directories
RECURSIVE delete_files_skips_dirs(_, _, _, _, _)
delete_files_skips_dirs(fsys, files, i, fail_at, removed) ==
  IF i > Len(files) THEN [failed |-> FALSE, fs |-> fsys, removed |-> removed]
  ELSE IF i = fail_at /\ files[i] \in DOMAIN fsys
  THEN [failed |-> TRUE, fs |-> fsys, removed |-> removed]
  ELSE delete_files_skips_dirs(
         IF files[i] \in DOMAIN fsys /\ fsys[files[i]].type = "dir" THEN fsys
         ELSE rm(fsys, files[i]),
         files, i + 1, fail_at, Append(removed, files[i]))

\* the delete loop of remove_package: the deletion of files[fail_at] raises
\* when there is something to delete (0: none raises)
RECURSIVE delete_files(_, _, _, _, _)
delete_files(fsys, files, i, fail_at, removed) ==
  IF i > Len(files) THEN [failed |-> FALSE, fs |-> fsys, removed |-> removed]
  ELSE IF i = fail_at /\ files[i] \in DOMAIN fsys
  THEN [failed |-> TRUE, fs |-> fsys, removed |-> removed]
  ELSE delete_files(rm(fsys, files[i]), files, i + 1, fail_at, Append(removed, files[i]))

\* dest.parent.mkdir(parents=True, exist_ok=True)
mkdir_parents(fsys, f) ==
  [q \in DOMAIN fsys \cup Ancestors(f) |-> IF q \in DOMAIN fsys THEN fsys[q] ELSE Dir]

\* restore_backup(backup_dir, removed) of remove.py
RECURSIVE remove_restore_backup(_, _, _, _)
remove_restore_backup(fsys, bkp, removed, i) ==
  IF i > Len(removed) THEN fsys
  ELSE LET f == removed[i]
           made == mkdir_parents(fsys, f)
           cleared == rm(made, f)
           restored ==
             IF f \notin DOMAIN bkp THEN fsys
             ELSE IF bkp[f].type = "file"
             THEN IF f \in DOMAIN made /\ made[f].type = "symlink" THEN made
                  ELSE DictSet(made, f, bkp[f])
             ELSE [q \in DOMAIN cleared \cup Subtree(bkp, f) |->
                     IF q \in Subtree(bkp, f) THEN bkp[q] ELSE cleared[q]]
       IN remove_restore_backup(restored, bkp, removed, i + 1)

\* len(x.split(os.sep)) orders the parents of cleanup_empty_dirs; "/" is
\* above the tree of the model and never empty
parents_by_depth(removed) ==
  SelectSeq(<<"/a/b", "/a">>, LAMBDA d : \E i \in 1..Len(removed) : ParentOf(removed[i]) = d)

rmdir_if_empty(fsys, d) ==
  IF d \in DOMAIN fsys /\ fsys[d].type = "dir" /\ ~(\E q \in DOMAIN fsys : ParentOf(q) = d)
  THEN rm(fsys, d) ELSE fsys

RECURSIVE cleanup_dirs(_, _, _)
cleanup_dirs(fsys, dirs, i) ==
  IF i > Len(dirs) THEN fsys ELSE cleanup_dirs(rmdir_if_empty(fsys, dirs[i]), dirs, i + 1)

cleanup_empty_dirs(fsys, removed) == cleanup_dirs(fsys, parents_by_depth(removed), 1)

\* run_hook({"name": pkgname}, hook, sandbox_dirArg(sandbox), sandbox) and
\* _notify(msg): remove.py calls sandbox_dirArg and _notify, which no module
\* defines, and a run_hook of four parameters.  A package entry that holds
\* only a name declares no hook, so the calls change nothing
run_remove_hook(pkgname, hook) == [raised |-> FALSE]
notify_removed(pkgname) == [raised |-> FALSE]

RemoveResult(status, message, fsys, db, removed) ==
  [status |-> status, message |-> message, fs |-> fsys, db |-> db, removed |-> removed]

\* remove_package(pkgname, force, dry_run, yes), where o.rev tells whether
\* the dependency graph has reverse dependencies of the package, o.answer
\* is the user's reply to the prompt and o.fail_at the deletion that raises
remove_package(fsys, db, pkgname, o) ==
  IF pkgname \notin DOMAIN db
  THEN RemoveResult("error", "not installed", fsys, db, <<>>)
  ELSE IF o.rev /\ ~o.force /\ ~o.yes /\ ~o.answer
  THEN RemoveResult("cancelled", "user aborted", fsys, db, <<>>)
  ELSE LET files == db[pkgname].files
           bkp == backup_files(fsys, files, 1, EmptyFn)
           del == delete_files(fsys, files, 1, o.fail_at, <<>>)
       IN IF run_remove_hook(pkgname, "pre_remove").raised
          THEN RemoveResult("raised", "pre_remove", fsys, db, <<>>)
          ELSE IF o.dry_run
          THEN RemoveResult("dry-run", "", fsys, db, <<>>)
          ELSE IF del.failed
          THEN RemoveResult("error", "removal failed, rollback done",
                            remove_restore_backup(del.fs, bkp, del.removed, 1), db,
                            del.removed)
          ELSE IF run_remove_hook(pkgname, "post_remove").raised
          THEN RemoveResult("raised", "post_remove", del.fs, db, del.removed)
          ELSE RemoveResult(IF notify_removed(pkgname).raised THEN "raised" ELSE "ok", "",
                            cleanup_empty_dirs(del.fs, del.removed),
                            DictDel(db, pkgname), del.removed)

----------------------------------------------------------------------------
(* install.py and remove.py: the ledger installed.json on disk.  installed  *)
(* is the document that the bytes of the file were written from, and the    *)
(* content of fs[INSTALLED_DB] tells whether all of those bytes are in the  *)
(* file or the file was opened for writing and holds a prefix of them.      *)

INSTALLED_DB == "/pyport/db/installed.json"

\* load_installed_db and load_db: {} when the file is missing or is not a
\* JSON document
load_installed_db(fsys, doc) ==
  IF INSTALLED_DB \in DOMAIN fsys /\ fsys[INSTALLED_DB].content = "complete"
  THEN doc ELSE EmptyFn

\* Path.write_text opens the file with mode "w", which truncates it, ...
write_text_open(fsys) == DictSet(fsys, INSTALLED_DB, File("partial"))

\* ... and writes the text and closes the file
write_text_close(fsys) == DictSet(fsys, INSTALLED_DB, File("complete"))

\* the change of the ledger that a call makes between its load and its save
ledger_change(db, call) ==
  IF call.op = "install"
  THEN DictSet(db, call.name, [version |-> "2.0", files |-> <<>>])
  ELSE DictDel(db, call.name)

----------------------------------------------------------------------------
(* sandbox.py: build_port.  A port has a list of source items (an archive,  *)
(* a plain file or a git repository), a build system and possibly install  *)
(* commands.  A run of build_port is the list of the steps it started, in   *)
(* order; o.fails holds the positions of the steps that fail when run.      *)

BUILD_DIR == "/pyport/build/misc/p/1.0"

\* the loop over meta["source"]: an item is fetched (downloaded or cloned)
\* and, when it is an archive, extracted, before the next item is looked at
RECURSIVE source_steps(_, _)
source_steps(srcs, i) ==
  IF i > Len(srcs) THEN <<>>
  ELSE (IF srcs[i] = "archive" THEN <<"fetching", "extracting">> ELSE <<"fetching">>)
       \o source_steps(srcs, i + 1)

\* _autotools_handler: ./configure, make, make install; a custom build runs
\* the build commands of the port
handler_steps(build_system) ==
  IF build_system = "autotools" THEN <<"configuring", "compiling", "make_install">>
  ELSE <<"compiling">>

\* the steps of build_port after create_build_tree, when none of them fails
port_steps(o) ==
  source_steps(o.srcs, 1)
  \o <<"patching", "select_source_tree", "pre_configure">>
  \o handler_steps(o.build_system)
  \o <<"post_configure", "check", "pre_install">>
  \o (IF o.has_install THEN <<"installing">> ELSE <<>>)
  \o <<"post_install">>

\* a build_port that goes on after a failed pre_install hook as well
pre_install_failure_ignored(step) == step \in {"check", "pre_install"}

\* the except branch of the check hooks records a warning and continues
ignores_failure(step) == step = "check"

\* the except branches that remove build_dir before they return: those of
\* the fetch loop, the patches, the pre_configure hooks and the build
removes_build_dir(step) ==
  step \in {"fetching", "extracting", "patching", "pre_configure",
            "configuring", "compiling", "make_install"}

\* the steps in order, up to the first failure that is not ignored
RECURSIVE run_steps(_, _, _, _)
run_steps(steps, i, fails, log) ==
  IF i > Len(steps) THEN [status |-> "ok", at |-> 0, log |-> log]
  ELSE IF i \in fails /\ ~ignores_failure(steps[i])
  THEN [status |-> "error", at |-> i, log |-> Append(log, steps[i])]
  ELSE run_steps(steps, i + 1, fails, Append(log, steps[i]))

\* build_port(target, options): dir tells whether build_dir exists
build_port(dir, o) ==
  IF ~o.found THEN [status |-> "error", at |-> 0, log |-> <<>>, dir |-> dir]
  ELSE LET steps == port_steps(o)
           r == run_steps(steps, 1, o.fails, <<>>)
           keep == o.keep_build_on_success \/ o.keep_build
           rmtree == IF r.status = "ok" THEN TRUE ELSE removes_build_dir(steps[r.at])
       IN [status |-> r.status, at |-> r.at, log |-> r.log, dir |-> ~(rmtree /\ ~keep)]

----------------------------------------------------------------------------
(* compile.py and configure.py.  The build directory is a map from the      *)
(* names of its files to their content and mtime.  A command line is the    *)
(* program that is run and the -j flag it carries (0 for none); fails holds *)
(* the positions, among the executions of one call, of those that exit with *)
(* a failure.                                                               *)

COMPILE_DONE == ".compile_done"
CONFIGURE_DONE == ".configure_done"

Entry(c, t) == [type |-> "file", content |-> c, mtime |-> t]
Cmd(c, j) == [cmd |-> c, j |-> j]

\* _hash_source: the names and the mtimes of all the files under build_dir
_hash_source(tree) == <<"sha256", [f \in DOMAIN tree |-> tree[f].mtime]>>

\* _load_env and _hash_env: the flags of the port put on the environment of
\* the process, and the hash of the sorted variables
_load_env(port) == [CFLAGS |-> port.cflags]
_hash_env(env) == <<"sha256", <<"CFLAGS", env.CFLAGS>> >>

\* the loop of _run_command over the attempts: the command is run, and a
\* failure of the last attempt raises CompileError
RECURSIVE run_attempts(_, _, _, _, _)
run_attempts(line, attempt, retries, fails, ran) ==
  LET ran1 == Append(ran, line)
  IN IF Len(ran1) \notin fails THEN [ok |-> TRUE, ran |-> ran1]
     ELSE IF attempt = retries THEN [ok |-> FALSE, ran |-> ran1]
     ELSE run_attempts(line, attempt + 1, retries, fails, ran1)

\* compile.py _run_command: -j<jobs> is appended to a make command only
_run_command(cmd, jobs, retries, fails, ran) ==
  run_attempts(Cmd(cmd, IF jobs > 1 /\ cmd = "make" THEN jobs ELSE 0), 1, retries, fails, ran)

_run_make(jobs, fails, ran) == _run_command("make", jobs, 2, fails, ran)
_run_ninja(jobs, fails, ran) == _run_command("ninja", jobs, 2, fails, ran)
_run_cargo(jobs, fails, ran) == _run_command("cargo build --release", jobs, 1, fails, ran)
_run_python(jobs, fails, ran) == _run_command("python3 setup.py build", jobs, 1, fails, ran)

\* the try block of compile_port and its fallback on CompileError
run_build_system(system, jobs, fails) ==
  LET first == CASE system \in {"autotools", "cmake"} -> _run_make(jobs, fails, <<>>)
                 [] system = "meson" -> _run_ninja(jobs, fails, <<>>)
                 [] system = "cargo" -> _run_cargo(jobs, fails, <<>>)
                 [] system = "python" -> _run_python(jobs, fails, <<>>)
                 [] system = "custom" -> [ok |-> TRUE, ran |-> <<>>]
                 [] OTHER -> [ok |-> FALSE, ran |-> <<>>]
  IN IF first.ok \/ jobs <= 1 THEN first ELSE _run_make(1, fails, first.ran)

\* compile_port(port, build_dir, sandbox, jobs, force).  The hooks are run
\* as run_hook(port, "pre_build", build_dir, sandbox): the port is handed as
\* the hook and the name of the hook as the port
compile_port(tree, system, jobs, force, fails, now) ==
  LET src_hash == _hash_source(tree)
      pre == run_hook([type |-> "dict"], [type |-> "str"])
      b == run_build_system(system, jobs, fails)
      post == run_hook([type |-> "dict"], [type |-> "str"])
  IN IF COMPILE_DONE \in DOMAIN tree /\ ~force /\ tree[COMPILE_DONE].content = src_hash
     THEN [status |-> "skipped", ran |-> <<>>, tree |-> tree]
     ELSE IF pre.raised THEN [status |-> "raised", ran |-> <<>>, tree |-> tree]
     ELSE IF ~b.ok THEN [status |-> "error", ran |-> b.ran, tree |-> tree]
     ELSE [status |-> IF post.raised THEN "raised" ELSE "ok", ran |-> b.ran,
           tree |-> DictSet(tree, COMPILE_DONE, Entry(src_hash, now))]

\* the command of configure for a build system: none for custom
configure_command(system) ==
  CASE system = "autotools" -> <<Cmd("./configure --prefix=/usr", 0)>>
    [] system = "cmake" -> <<Cmd("cmake . -DCMAKE_INSTALL_PREFIX=/usr", 0)>>
    [] system = "meson" -> <<Cmd("meson setup build --prefix=/usr", 0)>>
    [] system = "cargo" -> <<Cmd("cargo build --release", 0)>>
    [] system = "python" -> <<Cmd("python3 setup.py build", 0)>>
    [] OTHER -> <<>>

\* configure(port, build_dir, sandbox, force): the hooks configure_env and
\* pre_configure, the command, the hook post_configure, the cache file
configure(tree, port, force, fails, now) ==
  LET env_hash == _hash_env(_load_env(port))
      pre == run_hook([type |-> "dict"], [type |-> "str"])
      post == run_hook([type |-> "dict"], [type |-> "str"])
      ran == configure_command(port.build_system)
  IN IF CONFIGURE_DONE \in DOMAIN tree /\ ~force /\ tree[CONFIGURE_DONE].content = env_hash
     THEN [status |-> "skipped", ran |-> <<>>, tree |-> tree]
     ELSE IF pre.raised THEN [status |-> "raised", ran |-> <<>>, tree |-> tree]
     ELSE IF ran # <<>> /\ 1 \in fails THEN [status |-> "error", ran |-> ran, tree |-> tree]
     ELSE IF post.raised THEN [status |-> "raised", ran |-> ran, tree |-> tree]
     ELSE [status |-> "ok", ran |-> ran,
           tree |-> DictSet(tree, CONFIGURE_DONE, Entry(env_hash, now))]

----------------------------------------------------------------------------
(* fakeroot.py: Fakerunner.  A command is a list of tokens, a token an      *)
(* option with its value (flag "DESTDIR=", value "/stage") or a plain word  *)
(* (flag ""); a command given as one string is the same list run through a  *)
(* shell.  The tools found on the PATH are those whose file is on the file  *)
(* system.                                                                  *)

Word(w) == [flag |-> "", value |-> w]
Opt(f, v) == [flag |-> f, value |-> v]

ToolPath(prog) == IF prog = "bwrap" THEN "/usr/bin/bwrap" ELSE "/usr/bin/fakeroot"

\* which(prog), on the file system files
which(files, prog) == ToolPath(prog) \in DOMAIN files

\* Path(sandbox_dir).resolve(): a relative path is taken from the working
\* directory
resolve_path(path) == IF path = "sb" THEN "/work/sb" ELSE path

\* Fakerunner(...): __post_init__ runs _detect_tools, which raises when
\* require_tools is set and the tool of an enabled layer is not found
Fakerunner(use_bwrap, use_fakeroot, require_tools, dry_run, files) ==
  LET have_fakeroot == which(files, "fakeroot")
      have_bwrap == which(files, "bwrap")
  IN IF require_tools /\ ((use_fakeroot /\ ~have_fakeroot) \/ (use_bwrap /\ ~have_bwrap))
     THEN [raised |-> "ToolMissingError"]
     ELSE [raised |-> "", use_bwrap |-> use_bwrap, use_fakeroot |-> use_fakeroot,
           require_tools |-> require_tools, dry_run |-> dry_run,
           _have_fakeroot |-> have_fakeroot, _have_bwrap |-> have_bwrap]

\* _bwrap_prefix: the sandbox is bound at /install (the read-only binds of
\* the system directories of the host are left out)
_bwrap_prefix(sandbox_dir) ==
  <<Word("bwrap"), Word("--unshare-all"), Word("--bind"), Word(resolve_path(sandbox_dir)),
    Word("/install")>>

_fakeroot_prefix(self) == IF self._have_fakeroot THEN <<Word("fakeroot")>> ELSE <<>>

\* _construct_command with bwrap missing drops the fakeroot prefix as well
_construct_command_one_prefix(self, cmd, sandbox_dir, shell) ==
  LET bwrap == self.use_bwrap /\ self._have_bwrap
      fake == self.use_fakeroot /\ self._have_fakeroot /\ (self.use_bwrap => self._have_bwrap)
      payload == IF shell THEN <<Word("sh"), Word("-c")>> \o cmd ELSE cmd
  IN IF (self.use_bwrap /\ ~self._have_bwrap /\ self.require_tools)
          \/ (self.use_fakeroot /\ ~self._have_fakeroot /\ self.require_tools)
     THEN [raised |-> "ToolMissingError", cmd |-> <<>>]
     ELSE IF bwrap /\ sandbox_dir = None THEN [raised |-> "ValueError", cmd |-> <<>>]
     ELSE [raised |-> "",
           cmd |-> (IF bwrap THEN _bwrap_prefix(sandbox_dir) ELSE <<>>)
                     \o (IF fake THEN _fakeroot_prefix(self) ELSE <<>>) \o payload]

\* _construct_command(cmd, cwd, sandbox_dir, shell): the prefix of each
\* enabled layer whose tool was found, then the payload, handed to sh -c
\* when shell is set
_construct_command(self, cmd, sandbox_dir, shell) ==
  LET bwrap == self.use_bwrap /\ self._have_bwrap
      fake == self.use_fakeroot /\ self._have_fakeroot
      payload == IF shell THEN <<Word("sh"), Word("-c")>> \o cmd ELSE cmd
  IN IF (self.use_bwrap /\ ~self._have_bwrap /\ self.require_tools)
          \/ (self.use_fakeroot /\ ~self._have_fakeroot /\ self.require_tools)
     THEN [raised |-> "ToolMissingError", cmd |-> <<>>]
     ELSE IF bwrap /\ sandbox_dir = None THEN [raised |-> "ValueError", cmd |-> <<>>]
     ELSE [raised |-> "",
           cmd |-> (IF bwrap THEN _bwrap_prefix(sandbox_dir) ELSE <<>>)
                     \o (IF fake THEN _fakeroot_prefix(self) ELSE <<>>) \o payload]

\* run(cmd, env=env, sandbox_dir=sandbox_dir, shell=shell): a dry run
\* executes nothing; ran is the list of the commands that were executed
\* and env the DESTDIR put on the environment of the command ("" for none)
run(self, cmd, env, sandbox_dir, shell) ==
  IF self.dry_run THEN [status |-> "ok", ran |-> <<>>, env |-> ""]
  ELSE LET c == _construct_command(self, cmd, sandbox_dir, shell)
       IN IF c.raised # "" THEN [status |-> c.raised, ran |-> <<>>, env |-> ""]
          ELSE [status |-> "ok", ran |-> <<c.cmd>>, env |-> env]

\* a --prefix= alone counts as a destination
_contains_dest_like_any_prefix(c) ==
  \E i \in 1..Len(c) : c[i].flag \in {"DESTDIR=", "--root=", "--prefix="}

\* _contains_dest_like of install_into_sandbox: the text holds "DESTDIR=" or
\* "--root=", or "--prefix=" together with "/install"
_contains_dest_like(c) ==
  \/ \E i \in 1..Len(c) : c[i].flag \in {"DESTDIR=", "--root="}
  \/ /\ \E i \in 1..Len(c) : c[i].flag = "--prefix="
     /\ \E i \in 1..Len(c) : c[i].value \in InstallTexts

\* install_into_sandbox(install_cmd, build_dir, sandbox_dir, shell): str
\* tells whether install_cmd is one string
install_into_sandbox(self, install_cmd, str, sandbox_dir, shell) ==
  IF self.use_bwrap /\ self._have_bwrap
  THEN IF ~_contains_dest_like(install_cmd)
       THEN run(self, Append(install_cmd, Opt("DESTDIR=", "/install")), "", sandbox_dir, str)
       ELSE run(self, install_cmd, "", sandbox_dir, shell)
  ELSE run(self, install_cmd, resolve_path(sandbox_dir), None, shell \/ str)

----------------------------------------------------------------------------
(* The state machine.  adj and meta are the graph of the running process,   *)
(* persistFile is deps.json, ports is the ports tree, installed is          *)
(* installed.json (what a load of it returns), fs is the host file system,  *)
(* procs holds the invocations of the tool that run concurrently, and res   *)
(* is what the call in progress returned (for a mutation, only its name).   *)
(* Apart from procs the caller is sequential: a call is made when none is   *)
(* in progress, and Return ends it.                                         *)

G == [adj |-> adj, meta |-> meta]

\* no package file
NoPkg == [name |-> None, version |-> None, depends |-> <<>>, entries |-> EmptyFn]

\* no Fakerunner
NoRunner == [raised |-> "", use_bwrap |-> FALSE, use_fakeroot |-> FALSE,
             require_tools |-> FALSE, dry_run |-> FALSE,
             _have_fakeroot |-> FALSE, _have_bwrap |-> FALSE]

NoRes == [op |-> "none", arg |-> None, nodes |-> {}, ok |-> FALSE, message |-> "",
          order |-> <<>>, missing |-> <<>>, cycles |-> <<>>, conflicts |-> <<>>,
          doc |-> export_doc(EmptyGraph), built |-> <<>>, failed |-> {}, ran |-> <<>>,
          status |-> "", pkg |-> NoPkg, free |-> 0, backup |-> <<>>,
          installs |-> <<>>, force |-> FALSE, stages |-> <<>>, at |-> 0,
          keep |-> FALSE, failed_at |-> {}, jobs |-> 0, fails |-> {},
          cmd |-> <<>>, env |-> "", shell |-> FALSE, self |-> NoRunner,
          backup_dir |-> FALSE, kw |-> NoKw, candidate |-> <<>>,
          requirement |-> <<>>, packaging |-> FALSE, dry_run |-> FALSE]

OpRes(op, arg) == [NoRes EXCEPT !.op = op, !.arg = arg]

GraphInit ==
  /\ adj = EmptyFn
  /\ meta = EmptyFn
  /\ persistFile = NoFile
  /\ res = NoRes
  /\ ports = EmptyFn
  /\ installed = EmptyFn
  /\ fs = EmptyFn
  /\ procs = EmptyFn

Idle == res.op = "none"

\* the caller takes the result
Return ==
  /\ ~Idle
  /\ res' = NoRes
  /\ UNCHANGED <<adj, meta, persistFile, ports, installed, fs, procs>>

\* the _reverse_cache of the graph object, kept in procs
ReverseCache ==
  IF "_reverse_cache" \in DOMAIN procs THEN procs["_reverse_cache"] ELSE NoCache

SetReverseCache(c) ==
  IF c.built THEN DictSet(procs, "_reverse_cache", c)
  ELSE DictDel(procs, "_reverse_cache")

\* a mutation of a graph built with persist=True drops the reverse index and
\* ends with _save()
Mutate(g, op, arg) ==
  /\ Idle
  /\ adj' = g.adj
  /\ meta' = g.meta
  /\ persistFile' = FileOf(save_doc(g))
  /\ procs' = SetReverseCache(reverse_cache_after(op, ReverseCache))
  /\ res' = OpRes(op, arg)
  /\ UNCHANGED <<ports, installed, fs>>

\* a mutation of a graph built with persist=False: nothing is saved
MutateInMemory(g, op, arg) ==
  /\ Idle
  /\ adj' = g.adj
  /\ meta' = g.meta
  /\ procs' = SetReverseCache(reverse_cache_after(op, ReverseCache))
  /\ res' = OpRes(op, arg)
  /\ UNCHANGED <<persistFile, ports, installed, fs>>

\* add_node(name, **kw) on a graph built with persist=False
AddNodeKw ==
  /\ Idle
  /\ \E name \in MetaPkgs, kw \in MetaKws :
       /\ adj' = add_node_kw(G, name, kw).adj
       /\ meta' = add_node_kw(G, name, kw).meta
       /\ procs' = SetReverseCache(reverse_cache_after("add_node", ReverseCache))
       /\ res' = [OpRes("add_node", name) EXCEPT !.kw = kw]
       /\ UNCHANGED <<persistFile, ports, installed, fs>>

AddNode(names, versions) ==
  \E name \in names, version \in versions :
    Mutate(add_node(G, name, version), "add_node", None)

\* add_edge(pkg, dep, requirement), for <<dep, requirement>> in targets
AddEdge(sources, targets) ==
  /\ Idle
  /\ NumEdges(adj) < MaxEdges
  /\ \E pkg \in sources, t \in targets :
       Mutate(add_edge(G, pkg, t[1], t[2]), "add_edge", None)

RemoveNode(names) ==
  \E name \in names : Mutate(remove_node(G, name), "remove_node", name)

RemoveEdge(names) ==
  \E pkg \in names, dep \in names : Mutate(remove_edge(G, pkg, dep), "remove_edge", None)

\* export_json(out_file): res.doc is the document written
ExportJson ==
  /\ Idle
  /\ res' = [OpRes("export_json", None) EXCEPT !.doc = export_doc(G)]
  /\ UNCHANGED <<adj, meta, persistFile, ports, installed, fs, procs>>

\* the next DependencyGraph(persist=True) is constructed: empty, then _load()
Load ==
  /\ Idle
  /\ LET g == IF persistFile.exists THEN load_doc(persistFile.doc) ELSE EmptyGraph
     IN /\ adj' = g.adj
        /\ meta' = g.meta
  /\ procs' = SetReverseCache(NoCache)
  /\ res' = OpRes("load", None)
  /\ UNCHANGED <<persistFile, ports, installed, fs>>

\* resolve(root)
Resolve(names) ==
  /\ Idle
  /\ \E root \in names :
    \E nodes \in {IF root \in DOMAIN adj THEN reachable(adj, root) ELSE {root}} :
    \E permT \in Perms(nodes), permC \in Perms(nodes) :
    \E r \in {resolve(adj, root, permT, permC)} :
      /\ res' = [OpRes("resolve", root) EXCEPT !.nodes = nodes, !.ok = r.ok,
                   !.message = r.message, !.order = r.order, !.missing = r.missing,
                   !.cycles = r.cycles, !.conflicts = r.conflicts]
      /\ UNCHANGED <<adj, meta, persistFile, ports, installed, fs, procs>>

\* topological_sort(subset)
TopologicalSort(names) ==
  /\ Idle
  /\ \E nodes \in SUBSET names :
    \E perm \in Perms(nodes) :
    \E r \in {topological_sort(adj, perm)} :
      /\ res' = [OpRes("topological_sort", None) EXCEPT !.nodes = nodes,
                   !.order = r.order, !.missing = r.missing, !.cycles = r.cycles]
      /\ UNCHANGED <<adj, meta, persistFile, ports, installed, fs, procs>>

\* detect_conflicts(subset)
DetectConflicts(names) ==
  /\ Idle
  /\ \E nodes \in SUBSET names :
    \E perm \in Perms(nodes) :
      /\ res' = [OpRes("detect_conflicts", None) EXCEPT !.nodes = nodes,
                   !.conflicts = detect_conflicts(adj, perm)]
      /\ UNCHANGED <<adj, meta, persistFile, ports, installed, fs, procs>>

\* reverse_dependencies(name)
ReverseDependencies(names) ==
  /\ Idle
  /\ \E name \in names, recursive \in BOOLEAN :
    \E r \in {reverse_dependencies_on(ReverseCache, adj, name, recursive)} :
      /\ res' = [OpRes("reverse_dependencies", name) EXCEPT !.ok = recursive,
                   !.order = r.out]
      /\ procs' = SetReverseCache(r.cache)
      /\ UNCHANGED <<adj, meta, persistFile, ports, installed, fs>>

\* satisfies(candidate_version, requirement), in a process that could or
\* could not import packaging
Satisfies ==
  /\ Idle
  /\ \E candidate \in VersionStrs \cup {NoneStr}, packaging \in BOOLEAN :
     \E requirement \in {p \o v : p \in ReqPrefixes, v \in VersionStrs} \cup {NoneStr} :
       /\ res' = [OpRes("satisfies", None) EXCEPT !.candidate = candidate,
                    !.requirement = requirement, !.packaging = packaging,
                    !.ok = satisfies(candidate, requirement, packaging)]
       /\ UNCHANGED <<adj, meta, persistFile, ports, installed, fs, procs>>

----------------------------------------------------------------------------
(* The specifications *)

\* version comparison
NextVersion == Satisfies \/ Return

SpecVersion == GraphInit /\ [][NextVersion]_vars

\* resolution: graphs over Pkgs, and the queries on them
ResolveAddNode == AddNode(Pkgs, {None})
ResolveAddEdge == AddEdge(Pkgs, UNION {{<<dep, r>> : r \in ResolveReqs(dep)} : dep \in Pkgs})
ResolveQuery == Resolve(Pkgs)
TopoQuery == TopologicalSort(Pkgs)
ReverseQuery == ReverseDependencies(Pkgs)

NextResolve ==
  \/ ResolveAddNode
  \/ ResolveAddEdge
  \/ ResolveQuery
  \/ TopoQuery
  \/ ReverseQuery
  \/ Return

SpecResolve == GraphInit /\ [][NextResolve]_vars

\* conflicts: requesters with requirements on one dependency
ConflictAddEdge == AddEdge(Requesters, {<<"X", r>> : r \in ConflictReqs})
ConflictQuery == DetectConflicts(Requesters \cup {"X"})

NextConflicts ==
  \/ ConflictAddEdge
  \/ ConflictQuery
  \/ Return

SpecConflicts == GraphInit /\ [][NextConflicts]_vars

\* mutation and persistence
GraphAddNode == AddNode(GraphPkgs, Versions)
GraphAddEdge == AddEdge(GraphPkgs, GraphPkgs \X GraphReqs)
GraphRemoveNode == RemoveNode(GraphPkgs)
GraphRemoveEdge == RemoveEdge(GraphPkgs)

NextGraph ==
  \/ GraphAddNode
  \/ GraphAddEdge
  \/ GraphRemoveNode
  \/ GraphRemoveEdge
  \/ ExportJson
  \/ Load
  \/ Return

SpecGraph == GraphInit /\ [][NextGraph]_vars

\* metadata: add_node with keywords on one package, between edge mutations
MetaAddEdge ==
  \E dep \in {"A", "B"} : MutateInMemory(add_edge(G, "A", dep, None), "add_edge", None)
MetaRemoveEdge ==
  \E dep \in {"A", "B"} : MutateInMemory(remove_edge(G, "A", dep), "remove_edge", None)

NextMeta ==
  \/ AddNodeKw
  \/ MetaAddEdge
  \/ MetaRemoveEdge
  \/ Return

SpecMeta == GraphInit /\ [][NextMeta]_vars

\* validation: packages with versions, edges with requirements, resolution
ValidateAddNode == AddNode(GraphPkgs, Versions)
ValidateAddEdge == AddEdge(GraphPkgs, GraphPkgs \X GraphReqs)
ValidateQuery == Resolve(GraphPkgs)

NextValidate ==
  \/ ValidateAddNode
  \/ ValidateAddEdge
  \/ ValidateQuery
  \/ Return

SpecValidate == GraphInit /\ [][NextValidate]_vars

\* mutations of a graph over Pkgs, and reverse-dependency queries between them
ReverseAddNode == AddNode(Pkgs, {None})
ReverseAddEdge == AddEdge(Pkgs, Pkgs \X {None})
ReverseRemoveNode == RemoveNode(Pkgs)
ReverseRemoveEdge == RemoveEdge(Pkgs)
ReverseTopoQuery == TopologicalSort(Pkgs)

NextReverse ==
  \/ ReverseAddNode
  \/ ReverseAddEdge
  \/ ReverseRemoveNode
  \/ ReverseRemoveEdge
  \/ ReverseQuery
  \/ ReverseTopoQuery
  \/ Return

SpecReverse == GraphInit /\ [][NextReverse]_vars

\* a port is added to the ports tree
WritePortfile ==
  /\ Idle
  /\ \E name \in BuildPkgs \ DOMAIN ports, file \in PortfileNames :
     \E depends \in DependsOf(name) :
       ports' = DictSet(ports, name, [file |-> file, version |-> "1.0", depends |-> depends])
  /\ UNCHANGED <<adj, meta, persistFile, res, installed, fs, procs>>

CallState == [installed |-> installed, file |-> persistFile, ran |-> <<>>, installs |-> <<>>]

\* build.py: build(target, {"force": force, "dry_run": dry_run}), for the
\* packages pkgs
BuildOf(pkgs) ==
  /\ Idle
  /\ \E target \in pkgs, force \in BOOLEAN, dry_run \in BOOLEAN,
        broken \in SUBSET pkgs :
     \E r \in {build(target, force, CallState,
                     [ports |-> ports, broken |-> broken, perm |-> <<>>,
                      dry_run |-> dry_run])} :
       /\ installed' = r.s.installed
       /\ res' = [OpRes("build", target) EXCEPT !.ok = (r.failed = {}), !.built = r.built,
                    !.failed = r.failed, !.ran = r.s.ran, !.installs = r.s.installs,
                    !.force = force, !.dry_run = dry_run]
  /\ UNCHANGED <<adj, meta, persistFile, ports, fs, procs>>

\* core.py: Core().build(portname, force, dry_run), for the packages pkgs
CoreBuildOf(pkgs) ==
  /\ Idle
  /\ \E name \in pkgs, force \in BOOLEAN, dry_run \in BOOLEAN,
        broken \in SUBSET pkgs :
     \E perm \in Perms(pkgs) :
     \E r \in {core_build(name, force, CallState,
                          [ports |-> ports, broken |-> broken, perm |-> perm,
                           dry_run |-> dry_run])} :
       /\ installed' = r.s.installed
       /\ persistFile' = r.s.file
       /\ res' = [OpRes("core_build", name) EXCEPT !.ok = r.ok, !.ran = r.s.ran,
                    !.installs = r.s.installs, !.force = force, !.dry_run = dry_run]
  /\ UNCHANGED <<adj, meta, ports, fs, procs>>

Build == BuildOf(BuildPkgs)
CoreBuild == CoreBuildOf(BuildPkgs)

NextBuild == WritePortfile \/ Build \/ CoreBuild \/ Return

SpecBuild == GraphInit /\ [][NextBuild]_vars

\* builds over three packages whose port files declare dependencies on the
\* packages after them, so that a dependency can be shared
WriteSharedPortfile ==
  /\ Idle
  /\ \E name \in SharedPkgs \ DOMAIN ports, file \in PortfileNames :
     \E depends \in SharedDependsOf(name) :
       ports' = DictSet(ports, name, [file |-> file, version |-> "1.0", depends |-> depends])
  /\ UNCHANGED <<adj, meta, persistFile, res, installed, fs, procs>>

SharedBuild == BuildOf(SharedPkgs)
SharedCoreBuild == CoreBuildOf(SharedPkgs)

NextShared == WriteSharedPortfile \/ SharedBuild \/ SharedCoreBuild \/ Return

SpecShared == GraphInit /\ [][NextShared]_vars

Spec == SpecResolve

\* --- sandbox builds: pyport-sandbox build <target> ---

PortOpts ==
  {o \in [found : BOOLEAN, srcs : PortSources, build_system : {"autotools", "custom"},
          has_install : BOOLEAN, keep_build : BOOLEAN, keep_build_on_success : BOOLEAN,
          fails : SUBSET (1..MaxSteps)] :
     /\ Cardinality(o.fails) <= MaxFailures
     /\ \A i \in o.fails : i <= Len(port_steps(o))}

\* sandbox.py: build_port(target, options)
BuildPort ==
  /\ Idle
  /\ \E o \in PortOpts :
     \E r \in {build_port(BUILD_DIR \in DOMAIN fs, o)} :
       /\ fs' = IF r.dir THEN DictSet(fs, BUILD_DIR, Dir) ELSE rm(fs, BUILD_DIR)
       /\ res' = [OpRes("build_port", "p") EXCEPT !.status = r.status, !.stages = r.log,
                    !.at = r.at, !.failed_at = o.fails \cap 1..Len(r.log),
                    !.keep = o.keep_build_on_success \/ o.keep_build]
  /\ UNCHANGED <<adj, meta, persistFile, ports, installed, procs>>

NextPort == BuildPort \/ Return

SpecPort == GraphInit /\ [][NextPort]_vars

\* --- compile and configure of a build directory whose source files are
\* written by the stages before them ---

Now(tree) == 1 + Cardinality({t \in 1..MaxTime : \E f \in DOMAIN tree : tree[f].mtime >= t})

WriteSource ==
  /\ Idle
  /\ Now(fs) <= MaxTime
  /\ \E f \in SourceFiles : fs' = DictSet(fs, f, Entry("", Now(fs)))
  /\ UNCHANGED <<adj, meta, persistFile, res, ports, installed, procs>>

CompilePort ==
  /\ Idle
  /\ \E system \in CompileSystems, jobs \in JobCounts, force \in BOOLEAN,
        fails \in SUBSET (1..MaxRuns) :
       \E r \in {compile_port(fs, system, jobs, force, fails, Now(fs))} :
         /\ fs' = r.tree
         /\ res' = [OpRes("compile_port", system) EXCEPT !.status = r.status, !.ran = r.ran,
                      !.force = force, !.jobs = jobs, !.fails = fails]
  /\ UNCHANGED <<adj, meta, persistFile, ports, installed, procs>>

Configure ==
  /\ Idle
  /\ \E system \in CompileSystems, cflags \in PortFlags, force \in BOOLEAN,
        fails \in SUBSET (1..MaxRuns) :
       \E r \in {configure(fs, [build_system |-> system, cflags |-> cflags], force, fails, Now(fs))} :
         /\ fs' = r.tree
         /\ res' = [OpRes("configure", system) EXCEPT !.status = r.status, !.ran = r.ran,
                      !.force = force, !.fails = fails, !.message = cflags]
  /\ UNCHANGED <<adj, meta, persistFile, ports, installed, procs>>

NextCompile == WriteSource \/ CompilePort \/ Configure \/ Return

SpecCompile == GraphInit /\ [][NextCompile]_vars

\* --- sandboxed commands: the tools are set up on the host, then the
\* process constructs its Fakerunner, procs["fr"], and runs commands with
\* it ---

ProvideTool ==
  /\ Idle
  /\ procs = EmptyFn
  /\ \E prog \in Tools :
       /\ ~which(fs, prog)
       /\ fs' = DictSet(fs, ToolPath(prog), File("elf"))
  /\ UNCHANGED <<adj, meta, persistFile, res, ports, installed, procs>>

NewFakerunner ==
  /\ Idle
  /\ \E use_bwrap \in BOOLEAN, use_fakeroot \in BOOLEAN, require_tools \in BOOLEAN,
        dry_run \in BOOLEAN :
       \E self \in {Fakerunner(use_bwrap, use_fakeroot, require_tools, dry_run, fs)} :
         /\ procs' = IF self.raised = "" THEN DictSet(procs, "fr", self) ELSE procs
         /\ res' = [OpRes("Fakerunner", None) EXCEPT
                      !.status = IF self.raised = "" THEN "ok" ELSE self.raised,
                      !.self = [NoRunner EXCEPT !.use_bwrap = use_bwrap,
                                  !.use_fakeroot = use_fakeroot,
                                  !.require_tools = require_tools, !.dry_run = dry_run,
                                  !._have_fakeroot = which(fs, "fakeroot"),
                                  !._have_bwrap = which(fs, "bwrap")]]
  /\ UNCHANGED <<adj, meta, persistFile, ports, installed, fs>>

Run ==
  /\ Idle
  /\ "fr" \in DOMAIN procs
  /\ \E cmd \in InstallCmds, sandbox_dir \in SandboxDirs \cup {None}, shell \in BOOLEAN :
       \E r \in {run(procs["fr"], cmd, "", sandbox_dir, shell)} :
         res' = [OpRes("run", sandbox_dir) EXCEPT !.status = r.status, !.ran = r.ran,
                   !.env = r.env, !.cmd = cmd, !.shell = shell, !.self = procs["fr"]]
  /\ UNCHANGED <<adj, meta, persistFile, ports, installed, fs, procs>>

InstallIntoSandbox ==
  /\ Idle
  /\ "fr" \in DOMAIN procs
  /\ \E install_cmd \in InstallCmds, sandbox_dir \in SandboxDirs, str \in BOOLEAN,
        shell \in BOOLEAN :
       \E r \in {install_into_sandbox(procs["fr"], install_cmd, str, sandbox_dir, shell)} :
         res' = [OpRes("install_into_sandbox", sandbox_dir) EXCEPT !.status = r.status,
                   !.ran = r.ran, !.env = r.env, !.cmd = install_cmd, !.shell = shell,
                   !.self = procs["fr"]]
  /\ UNCHANGED <<adj, meta, persistFile, ports, installed, fs, procs>>

NextFakeroot == ProvideTool \/ NewFakerunner \/ Run \/ InstallIntoSandbox \/ Return

SpecFakeroot == GraphInit /\ [][NextFakeroot]_vars

\* --- installs: hosts that hold files and links at the target paths ---

InstallInit ==
  /\ adj = EmptyFn
  /\ meta = EmptyFn
  /\ persistFile = NoFile
  /\ res = NoRes
  /\ ports = EmptyFn
  /\ installed = EmptyFn
  /\ fs \in HostTrees
  /\ procs = EmptyFn

InstallOpts(pkg) ==
  [force : BOOLEAN, dry_run : BOOLEAN, yes : BOOLEAN, answer : BOOLEAN,
   free : 0..MaxFree, fail_at : 0..Cardinality(DOMAIN pkg.entries)]

\* pyport install <pkgfile>
Install ==
  /\ Idle
  /\ \E pkg \in PkgFiles : \E o \in InstallOpts(pkg) :
       \E r \in {install_package(fs, installed, pkg, o)} :
         /\ fs' = r.fs
         /\ installed' = r.db
         /\ res' = [OpRes("install", pkg.name) EXCEPT !.status = r.status,
                      !.message = r.message, !.pkg = pkg, !.free = o.free,
                      !.backup = r.backup]
  /\ UNCHANGED <<adj, meta, persistFile, ports, procs>>

\* pyport install <pkgfile>, stopped by Ctrl-C: a call that would go through
\* (it passes the checks and the prompts) is interrupted at one of its points
InstallInterrupted ==
  /\ Idle
  /\ \E pkg \in PkgFiles : \E o \in InstallOpts(pkg), keep_backup \in BOOLEAN,
        point \in InterruptPoints, k \in 1..(Cardinality(DOMAIN pkg.entries) + 1) :
       /\ o.fail_at = 0
       /\ install_package(fs, installed, pkg, o).status = "ok"
       /\ point # "copy" => k = 1
       /\ \E r \in {install_package_interrupted(fs, installed, pkg, keep_backup, point, k)} :
            /\ fs' = r.fs
            /\ installed' = r.db
            /\ res' = [OpRes("install_interrupted", pkg.name) EXCEPT !.status = "interrupted",
                         !.message = point, !.at = k, !.pkg = pkg,
                         !.backup = r.backup, !.backup_dir = r.backup_dir,
                         !.keep = keep_backup]
  /\ UNCHANGED <<adj, meta, persistFile, ports, procs>>

NextInstall == Install \/ InstallInterrupted \/ Return

\* pyport install <pkgfile> for the versions 9.0 and 10.0 of one package
Upgrade ==
  /\ Idle
  /\ \E pkg \in UpgradeFiles : \E o \in InstallOpts(pkg) :
       \E r \in {install_package(fs, installed, pkg, o)} :
         /\ fs' = r.fs
         /\ installed' = r.db
         /\ res' = [OpRes("install", pkg.name) EXCEPT !.status = r.status,
                      !.message = r.message, !.pkg = pkg, !.free = o.free,
                      !.backup = r.backup, !.force = o.force, !.dry_run = o.dry_run]
  /\ UNCHANGED <<adj, meta, persistFile, ports, procs>>

NextUpgrade == Upgrade \/ Return

\* --- removes: hosts with directories, and a ledger entry whose file list
\* is one that install_package writes: sorted, and with every directory
\* above a listed path listed as well, as rglob yields them ---

TreeConsistent(t) ==
  \A f \in DOMAIN t : \A d \in Ancestors(f) : d \in DOMAIN t /\ t[d].type = "dir"

RemoveTrees ==
  {t \in UNION {[S -> RemoveEntries] : S \in SUBSET RemovePaths} : TreeConsistent(t)}

InstalledFileLists ==
  {SortedPaths(S) : S \in {T \in SUBSET RemovePaths : \A f \in T : Ancestors(f) \subseteq T}}

RemoveInit ==
  /\ adj = EmptyFn
  /\ meta = EmptyFn
  /\ persistFile = NoFile
  /\ res = NoRes
  /\ ports = EmptyFn
  /\ \E files \in InstalledFileLists :
       installed = [n \in {"p"} |-> [version |-> "1.0", files |-> files]]
  /\ fs \in RemoveTrees
  /\ procs = EmptyFn

RemoveOpts(files) ==
  [force : BOOLEAN, dry_run : BOOLEAN, yes : BOOLEAN, answer : BOOLEAN, rev : BOOLEAN,
   fail_at : 0..Len(files)]

\* pyport remove <pkgname>
Remove ==
  /\ Idle
  /\ \E pkgname \in InstallNames :
     \E o \in RemoveOpts(IF pkgname \in DOMAIN installed THEN installed[pkgname].files
                          ELSE <<>>) :
     \E r \in {remove_package(fs, installed, pkgname, o)} :
       /\ fs' = r.fs
       /\ installed' = r.db
       /\ res' = [OpRes("remove", pkgname) EXCEPT !.status = r.status,
                    !.message = r.message, !.order = r.removed]
  /\ UNCHANGED <<adj, meta, persistFile, ports, procs>>

NextRemove == Remove \/ Return

SpecRemove == RemoveInit /\ [][NextRemove]_vars

\* --- concurrent invocations on the ledger.  procs maps a process to its
\* call, its position in it and the ledger it holds in memory ---

LedgerDocs == {EmptyFn} \cup
  UNION {[S -> {[version |-> "1.0", files |-> <<>>]}] : S \in (SUBSET InstallNames) \ {{}}}

LedgerInit ==
  /\ adj = EmptyFn
  /\ meta = EmptyFn
  /\ persistFile = NoFile
  /\ res = NoRes
  /\ ports = EmptyFn
  /\ installed \in LedgerDocs
  /\ fs = write_text_close(EmptyFn)
  /\ \E calls \in [LedgerProcs -> LedgerCalls] :
       /\ \A p, q \in LedgerProcs :
            (p # q /\ calls[p].op # "read" /\ calls[q].op # "read")
              => calls[p].name # calls[q].name
       /\ procs = [p \in LedgerProcs |->
                     [call |-> calls[p], pc |-> "start", db |-> EmptyFn]]

\* db = load_installed_db() of install_package, db = load_db() of
\* remove_package; a remove of a package that is not in the ledger returns
LedgerLoad ==
  \E p \in DOMAIN procs :
    /\ procs[p].pc = "start"
    /\ LET db == load_installed_db(fs, installed)
           stop == \/ procs[p].call.op = "read"
                   \/ procs[p].call.op = "remove" /\ procs[p].call.name \notin DOMAIN db
       IN procs' = [procs EXCEPT ![p].db = db,
                                 ![p].pc = IF stop THEN "done" ELSE "loaded"]
    /\ UNCHANGED <<adj, meta, persistFile, res, ports, installed, fs>>

\* the call changed the host files; it changes its ledger in memory and
\* save_installed_db (save_db) opens installed.json for writing
LedgerOpen ==
  \E p \in DOMAIN procs :
    /\ procs[p].pc = "loaded"
    /\ procs' = [procs EXCEPT ![p].db = ledger_change(@, procs[p].call),
                              ![p].pc = "writing"]
    /\ fs' = write_text_open(fs)
    /\ UNCHANGED <<adj, meta, persistFile, res, ports, installed>>

\* the text of the ledger in memory is written and the file closed
LedgerWrite ==
  \E p \in DOMAIN procs :
    /\ procs[p].pc = "writing"
    /\ installed' = procs[p].db
    /\ fs' = write_text_close(fs)
    /\ procs' = [procs EXCEPT ![p].pc = "done"]
    /\ UNCHANGED <<adj, meta, persistFile, res, ports>>

NextLedger == LedgerLoad \/ LedgerOpen \/ LedgerWrite

SpecLedger == LedgerInit /\ [][NextLedger]_vars

\* --- concurrent processes on deps.json.  procs maps a process to its
\* mutation, its position and its DependencyGraph object g.  _load and
\* _save each hold the lock of deps.lock from start to end, so each is one
\* step; _save replaces the file by a complete temporary file ---

PersistInit ==
  /\ adj = EmptyFn
  /\ meta = EmptyFn
  /\ persistFile \in {NoFile, FileOf(save_doc(EmptyGraph)),
                       FileOf(save_doc(add_node(EmptyGraph, "C", "1.0")))}
  /\ res = NoRes
  /\ ports = EmptyFn
  /\ installed = EmptyFn
  /\ fs = EmptyFn
  /\ \E calls \in [PersistProcs -> PersistCalls] :
       /\ \A p, q \in PersistProcs : p # q => calls[p] # calls[q]
       /\ procs = [p \in PersistProcs |->
                     [call |-> calls[p], pc |-> "start", g |-> EmptyGraph]]

\* DependencyGraph(persist=True): __init__ calls _load
PersistLoad ==
  \E p \in DOMAIN procs :
    /\ procs[p].pc = "start"
    /\ procs' = [procs EXCEPT
                   ![p].g = IF persistFile.exists THEN load_doc(persistFile.doc)
                            ELSE EmptyGraph,
                   ![p].pc = "loaded"]
    /\ UNCHANGED <<adj, meta, persistFile, res, ports, installed, fs>>

\* g.add_node(name) or g.add_edge(name, dep), which ends with _save
PersistMutate ==
  \E p \in DOMAIN procs :
    /\ procs[p].pc = "loaded"
    /\ LET c == procs[p].call
           g == IF c.op = "add_node" THEN add_node(procs[p].g, c.name, None)
                ELSE add_edge(procs[p].g, c.name, c.dep, None)
       IN /\ procs' = [procs EXCEPT ![p].g = g, ![p].pc = "done"]
          /\ persistFile' = FileOf(save_doc(g))
    /\ UNCHANGED <<adj, meta, res, ports, installed, fs>>

NextPersist == PersistLoad \/ PersistMutate

SpecPersist == PersistInit /\ [][NextPersist]_vars

SpecInstall == InstallInit /\ [][NextInstall]_vars

\* upgrades and downgrades of one package on an empty host
SpecUpgrade == GraphInit /\ [][NextUpgrade]_vars

----------------------------------------------------------------------------
(* Graph notions the claims are stated with, defined on the edge set        *)
(* directly and not through the code's traversals.                         *)

\* the targets of the edges that leave S and stay in nodes
Succ(a, nodes, S) == {e[2] : e \in {x \in edges(a) : x[1] \in S /\ x[2] \in nodes}}

RECURSIVE Grow(_, _, _)
Grow(a, nodes, S) ==
  LET T == S \cup Succ(a, nodes, S) IN IF T = S THEN S ELSE Grow(a, nodes, T)

\* what is reachable from n by one or more edges inside nodes
ReachPlus(a, nodes, n) == Grow(a, nodes, Succ(a, nodes, {n}))

\* the subgraph induced by nodes contains a directed cycle
HasCycleIn(a, nodes) == \E n \in nodes : n \in ReachPlus(a, nodes, n)

AllNames == Range(SortedNames)

\* the transitive dependency closure of root, root included
Closure(a, root) == {root} \cup ReachPlus(a, AllNames, root)

\* x comes before y in a list that holds both
Before(order, x, y) == Pos(order, x) < Pos(order, y)

NoRepeats(s) == \A i, j \in 1..Len(s) : s[i] = s[j] => i = j

HasEdge(a, x, y) == \E e \in edges(a) : e[1] = x /\ e[2] = y

\* the packages with a directed path of one edge or more to name
PathTo(a, name) == {p \in DOMAIN a : name \in ReachPlus(a, AllNames, p)}

\* the packages with an edge to name
EdgeTo(a, name) == {p \in DOMAIN a : HasEdge(a, p, name)}

\* C32: reverse_dependencies(name, recursive=True) returns exactly the
\* packages with a directed path to name in the graph as it is now, and with
\* recursive=False exactly those with an edge to name; a reverse index that
\* is kept on the object is the index of the graph as it is now.
C32_ReverseDependenciesCurrent ==
  /\ res.op = "reverse_dependencies" =>
       /\ NoRepeats(res.order)
       /\ Range(res.order) = IF res.ok THEN PathTo(adj, res.arg)
                             ELSE EdgeTo(adj, res.arg)
  /\ ReverseCache.built => ReverseCache.r = build_reverse_cache(adj)

\* a recursive query answered with a package that has no edge to the name
\* asked about, from a graph that a removal has left with a node without
\* edges
C32_Witness ==
  /\ res.op = "reverse_dependencies" /\ res.ok
  /\ Range(res.order) \ EdgeTo(adj, res.arg) # {}
  /\ EdgeTo(adj, res.arg) # {}

\* every source has at most one requirement on each of its dependencies
OneEdgePerPair(a) ==
  \A n \in DOMAIN a : \A i, j \in 1..Len(a[n]) : a[n][i][1] = a[n][j][1] => i = j

\* the graphs of the examples
ChainGraph == [n \in {"A", "B", "C"} |->
                 IF n = "A" THEN << <<"B", ">=1.0">> >>
                 ELSE IF n = "B" THEN << <<"C", None>> >> ELSE <<>>]
PlainChainGraph == [n \in {"A", "B", "C"} |->
                 IF n = "A" THEN << <<"B", None>> >>
                 ELSE IF n = "B" THEN << <<"C", None>> >> ELSE <<>>]
CycleGraph == [n \in {"A", "B", "C"} |->
                 IF n = "A" THEN << <<"B", None>> >>
                 ELSE IF n = "B" THEN << <<"C", None>> >> ELSE << <<"A", None>> >>]

----------------------------------------------------------------------------
(* The claims on resolution, checked under SpecResolve *)

\* C1 (as claimed): for an acyclic graph and a target present in it, the
\* order returned by resolve(root) places dep before pkg for every edge
\* pkg -> dep whose two endpoints are in the order.  (Stated for graphs with
\* one requirement per source and dependency.)
C1_DepBeforePkg ==
  (res.op = "resolve" /\ res.arg \in DOMAIN adj /\ ~HasCycleIn(adj, DOMAIN adj)
     /\ OneEdgePerPair(adj))
    => \A e \in edges(adj) :
         (e[1] \in Range(res.order) /\ e[2] \in Range(res.order) /\ e[1] # e[2])
           => Before(res.order, e[2], e[1])

\* C2: on an acyclic closure, resolve(root) returns every package of the
\* transitive dependency closure of root exactly once and no other package;
\* for A -> B (>=1.0), B -> C, resolve("A") is ok with the order [C, B, A].
C2_OrderIsClosure ==
  /\ (res.op = "resolve" /\ res.arg \in DOMAIN adj
        /\ ~HasCycleIn(adj, Closure(adj, res.arg)))
       => /\ Range(res.order) = Closure(adj, res.arg)
          /\ NoRepeats(res.order)
  /\ (res.op = "resolve" /\ res.arg = "A" /\ adj = ChainGraph)
       => res.ok /\ res.order = <<"C", "B", "A">>

C2_Witness ==
  /\ res.op = "resolve" /\ res.arg = "A" /\ adj = ChainGraph
  /\ res.order = <<"C", "B", "A">>

\* C3 (as claimed): when the closure of the target contains a cycle, resolve
\* fails and every reported cycle repeats its first node at its end, each
\* consecutive pair being an edge; for A -> B, B -> C, C -> A the cycle
\* reported for "A" is [A, B, C, A].
C3_CycleWithRepeat ==
  /\ (res.op = "resolve" /\ res.arg \in DOMAIN adj
        /\ HasCycleIn(adj, Closure(adj, res.arg)))
       => /\ ~res.ok
          /\ res.cycles # <<>>
          /\ \A k \in 1..Len(res.cycles) :
               LET c == res.cycles[k] IN
               /\ Len(c) >= 2
               /\ c[1] = c[Len(c)]
               /\ \A i \in 1..(Len(c) - 1) : HasEdge(adj, c[i], c[i + 1])
  /\ (res.op = "resolve" /\ res.arg = "A" /\ adj = CycleGraph)
       => res.cycles = << <<"A", "B", "C", "A">> >>

\* C3 (amended): when the closure of the target contains a cycle, resolve
\* returns ok = False with a non-empty list of cycles, and otherwise reports
\* none.  A reported cycle is the slice of the search stack from the repeated
\* node to the top, the repeated node not appended again: its nodes are
\* distinct nodes of the closure, each consecutive pair is an edge, and so
\* is the pair of its last and its first node.  For A -> B, B -> C, C -> A,
\* resolve("A") reports one cycle, a rotation of [A, B, C].
C3_CycleSlice ==
  /\ (res.op = "resolve" /\ res.arg \in DOMAIN adj)
       => /\ HasCycleIn(adj, Closure(adj, res.arg)) => (~res.ok /\ res.cycles # <<>>)
          /\ ~HasCycleIn(adj, Closure(adj, res.arg)) => res.cycles = <<>>
          /\ \A k \in 1..Len(res.cycles) :
               LET c == res.cycles[k] IN
               /\ Len(c) >= 1
               /\ NoRepeats(c)
               /\ Range(c) \subseteq Closure(adj, res.arg)
               /\ \A i \in 1..(Len(c) - 1) : HasEdge(adj, c[i], c[i + 1])
               /\ HasEdge(adj, c[Len(c)], c[1])
  /\ (res.op = "resolve" /\ res.arg = "A" /\ adj = CycleGraph)
       => res.cycles \in {<< <<"A", "B", "C">> >>, << <<"B", "C", "A">> >>,
                          << <<"C", "A", "B">> >>}

C3_Witness ==
  /\ res.op = "resolve" /\ res.arg = "A" /\ adj = CycleGraph
  /\ ~res.ok
  /\ res.cycles = << <<"B", "C", "A">> >>

\* C4: topological_sort(subset) reports a non-empty list of cycles exactly
\* when the subgraph induced by subset contains a directed cycle, and its
\* order is shorter than the node set exactly then; the chain A -> B -> C
\* reports no cycle, and with C -> A added a cycle is reported.
C4_CyclesIffCycle ==
  /\ res.op = "topological_sort"
       => /\ (res.cycles # <<>>) <=> HasCycleIn(adj, res.nodes)
          /\ (Len(res.order) < Cardinality(res.nodes)) <=> HasCycleIn(adj, res.nodes)
          /\ Len(res.order) <= Cardinality(res.nodes)
  /\ (res.op = "topological_sort" /\ adj = PlainChainGraph /\ res.nodes = Pkgs)
       => res.cycles = <<>>
  /\ (res.op = "topological_sort" /\ adj = CycleGraph /\ res.nodes = Pkgs)
       => res.cycles # <<>>

C4_Witness ==
  /\ res.op = "topological_sort" /\ adj = CycleGraph /\ res.nodes = Pkgs
  /\ res.cycles # <<>>
  /\ Len(res.order) < Cardinality(res.nodes)

\* version v is older than version w in the dotted-numeric order
OlderThan(v, w) == tuple_compare(_parse_ver(Chars(v)), _parse_ver(Chars(w)), <<"<">>) = "True"

\* C40: without force, install_package skips a package exactly when the
\* installed version is the candidate's or newer in the dotted-numeric
\* order: with 9.0 installed the candidate 10.0 is not skipped.
C40_SkipsUnlessNewer ==
  [][(Idle /\ res'.op = "install" /\ ~res'.force /\ res'.arg \in DOMAIN installed) =>
       IF OlderThan(installed[res'.arg].version, res'.pkg.version)
       THEN res'.status # "skipped" /\ res'.message # "installed-newer"
       ELSE res'.status = "skipped"]_vars

\* C37: after any sequence of add_node, add_edge, remove_node and
\* remove_edge from the empty graph, the source and the target of every edge
\* are nodes, the metadata and the adjacency have the same keys, a removed
\* node is gone with every edge into it, and a sort of all the nodes finds
\* no dependency outside them.
C37_NoDanglingEdges ==
  /\ \A e \in edges(adj) : e[1] \in DOMAIN adj /\ e[2] \in DOMAIN adj
  /\ DOMAIN meta = DOMAIN adj
  /\ res.op = "remove_node" =>
       res.arg \notin DOMAIN adj /\ \A e \in edges(adj) : e[2] # res.arg
  /\ (res.op = "topological_sort" /\ res.nodes = DOMAIN adj) => res.missing = <<>>

\* B has been removed from a graph that still holds A and C, A keeping its
\* edge to C
C37_Witness ==
  /\ res.op = "remove_node" /\ res.arg = "B"
  /\ DOMAIN adj = {"A", "C"}
  /\ HasEdge(adj, "A", "C")

\* the version recorded for a package, None without one
VersionOf(n) ==
  IF n \in DOMAIN meta /\ "version" \in DOMAIN meta[n] THEN meta[n]["version"] ELSE None

\* C36: resolve(root) returns ok only if, for every edge pkg -> dep with a
\* requirement in the closure of root, the version recorded for dep
\* satisfies the requirement.
C36_ConstraintsValidated ==
  (res.op = "resolve" /\ res.ok) =>
    \A e \in edges(adj) :
      e[1] \in Closure(adj, res.arg) =>
        \A packaging \in BOOLEAN :
          satisfies(Chars(VersionOf(e[2])), Chars(e[3]), packaging)

\* the call answered in this state compares two version strings
VersionCall ==
  res.op = "satisfies" /\ res.candidate # NoneStr /\ res.requirement # NoneStr

\* how many of <, == and > the candidate satisfies against version v
Holding(candidate, v, packaging) ==
  Cardinality({op \in {<<"<">>, <<"=", "=">>, <<">">>} :
                 satisfies(candidate, op \o v, packaging)})

\* a requirement without operator is satisfied by the candidates that
\* satisfy == with its version, the version itself among them
C35_NoOperatorIsEquality ==
  VersionCall =>
    \A v \in VersionStrs :
      res.requirement = v =>
        /\ res.ok <=> satisfies(res.candidate, <<"=", "=">> \o v, res.packaging)
        /\ res.candidate = v => res.ok

\* 1.10 > 1.9, and 1.b > 1.a
C35_SegmentsCompared ==
  VersionCall =>
    /\ (res.candidate = <<"1", ".", "1", "0">> /\ res.requirement = <<">", "1", ".", "9">>)
         => res.ok
    /\ (res.candidate = <<"1", ".", "b">> /\ res.requirement = <<">", "1", ".", "a">>)
         => res.ok

\* C35: satisfies compares versions segment by segment, numeric segments as
\* numbers (1.10 > 1.9) and the others as strings (1.b > 1.a), a requirement
\* without operator is an equality, and against every version the candidate
\* satisfies exactly one of <, == and >.
C35_VersionOrdering ==
  /\ C35_NoOperatorIsEquality
  /\ C35_SegmentsCompared
  /\ VersionCall => \A v \in VersionStrs : Holding(res.candidate, v, res.packaging) = 1

\* a step that is a call of add_node with keywords on a node of the graph
MetaStep == res.op = "none" /\ res'.op = "add_node" /\ res'.arg \in DOMAIN adj

\* the metadata field f of node n is as it was
FieldUnchanged(n, f) ==
  /\ f \in DOMAIN meta'[n] <=> f \in DOMAIN meta[n]
  /\ f \in DOMAIN meta[n] => meta'[n][f] = meta[n][f]

ListFields == {"provides", "conflicts", "replaces"}

\* the call gives field f a value that add_node acts on
Effective(kw, f) ==
  IF f = "version" THEN kw[f] # None
  ELSE IF f \in {"source", "port_path"} THEN Truthy(kw[f])
  ELSE kw[f] # <<>>

\* C34 (as claimed): add_node on an existing node gives every field supplied
\* in the call the supplied value, leaves every other field as it was, and
\* leaves the outgoing edges of the node as they were.
C34_LastWriteWins ==
  [][MetaStep =>
       LET n == res'.arg
           kw == res'.kw
       IN /\ \A f \in DOMAIN NoKw :
               IF kw[f] # NoKw[f]
               THEN f \in DOMAIN meta'[n] /\ meta'[n][f] = kw[f]
               ELSE FieldUnchanged(n, f)
          /\ adj'[n] = adj[n]]_vars

\* C34 (amended): add_node on an existing node replaces the version when one
\* is supplied and the source, port_path and available_versions when a
\* non-empty one is supplied; the supplied items of provides, conflicts and
\* replaces that the field does not hold yet are appended to its previous
\* list; every field not supplied, or supplied empty, is as it was; the
\* outgoing edges of the node are as they were.
C34_MergePerField ==
  [][MetaStep =>
       LET n == res'.arg
           kw == res'.kw
       IN /\ \A f \in DOMAIN NoKw :
               IF ~Effective(kw, f) THEN FieldUnchanged(n, f)
               ELSE IF f \notin ListFields
               THEN f \in DOMAIN meta'[n] /\ meta'[n][f] = kw[f]
               ELSE LET old == IF f \in DOMAIN meta[n] THEN meta[n][f] ELSE <<>>
                        new == meta'[n][f]
                        added == SubSeq(new, Len(old) + 1, Len(new))
                    IN /\ Len(old) <= Len(new)
                       /\ SubSeq(new, 1, Len(old)) = old
                       /\ Range(added) = Range(kw[f]) \ Range(old)
                       /\ NoRepeats(added)
          /\ adj' = adj]_vars

\* the node A, which has an edge and provides v1, is given provides v2 and
\* now provides both
C34_Witness ==
  /\ res.op = "add_node" /\ res.arg = "A"
  /\ res.kw.provides = <<"v2">>
  /\ "A" \in DOMAIN meta /\ "provides" \in DOMAIN meta["A"]
  /\ meta["A"]["provides"] = <<"v1", "v2">>
  /\ adj["A"] # <<>>

\* the number of edges into n from the packages of nodes
EdgesInto(a, nodes, n) ==
  Cardinality({sl \in EdgeSlots(a) : sl[1] \in nodes /\ a[sl[1]][sl[2]][1] = n})

\* C33: the order returned by resolve(root) depends only on the graph and
\* the root, not on the iteration order of the sets built on the way: it is
\* the order obtained with any other iteration order, and two dependencies
\* that become ready together (each has one edge into it, both from the same
\* package) are taken in the order in which their edges were inserted, the
\* first inserted being installed last of the two.
C33_OrderDeterministic ==
  (res.op = "resolve" /\ res.arg \in DOMAIN adj) =>
    /\ \A p \in Perms(res.nodes) : resolve(adj, res.arg, p, p).order = res.order
    /\ res.ok =>
         \A n \in res.nodes : \A i, j \in 1..Len(adj[n]) :
           (/\ i < j
            /\ adj[n][i][1] # adj[n][j][1]
            /\ EdgesInto(adj, res.nodes, adj[n][i][1]) = 1
            /\ EdgesInto(adj, res.nodes, adj[n][j][1]) = 1)
             => Before(res.order, adj[n][j][1], adj[n][i][1])

\* A depends on C and then on B, inserted in that order: both become ready
\* when A is taken, and the order is [B, C, A]
C33_Witness ==
  /\ res.op = "resolve" /\ res.arg = "A" /\ res.ok
  /\ "A" \in DOMAIN adj /\ Len(adj["A"]) = 2
  /\ adj["A"][1][1] = "C" /\ adj["A"][2][1] = "B"
  /\ res.order = <<"B", "C", "A">>

\* C8 (as claimed): the uninstall order of a target, which the code computes
\* with reverse_dependencies(target), holds the target together with all its
\* transitive reverse dependents, every dependent before each package it
\* depends on; for A -> B -> C and the target C it is [A, B, C].
Dependents(a, target) == {p \in AllNames : target \in ReachPlus(a, AllNames, p)}

C8_UninstallOrder ==
  /\ (res.op = "reverse_dependencies" /\ res.ok)
       => /\ Range(res.order) = {res.arg} \cup Dependents(adj, res.arg)
          /\ ~HasCycleIn(adj, Range(res.order))
               => \A e \in edges(adj) :
                    (e[1] \in Range(res.order) /\ e[2] \in Range(res.order))
                      => Before(res.order, e[1], e[2])
  /\ (res.op = "reverse_dependencies" /\ res.ok /\ adj = PlainChainGraph /\ res.arg = "C")
       => res.order = <<"A", "B", "C">>

\* C8 (amended): reverse_dependencies(target) returns exactly the transitive
\* reverse dependents of the target (with recursive=False, its immediate
\* ones), each once, sorted by name and not by dependency; the target itself
\* is in the list only when it depends on itself through a cycle.  For
\* A -> B -> C and the target C it is [A, B].
C8_SortedDependents ==
  /\ res.op = "reverse_dependencies"
       => /\ res.ok => Range(res.order) = Dependents(adj, res.arg)
          /\ ~res.ok => Range(res.order) = {p \in AllNames : HasEdge(adj, p, res.arg)}
          /\ \A i, j \in 1..Len(res.order) :
               i < j => Rank(res.order[i]) < Rank(res.order[j])
          /\ res.arg \in Range(res.order) <=>
               (IF res.ok THEN res.arg \in ReachPlus(adj, AllNames, res.arg)
                ELSE HasEdge(adj, res.arg, res.arg))
  /\ (res.op = "reverse_dependencies" /\ res.ok /\ adj = PlainChainGraph /\ res.arg = "C")
       => res.order = <<"A", "B">>

\* B depends on A and A on C: the dependent B is listed after A
C8_Witness ==
  /\ res.op = "reverse_dependencies" /\ res.ok /\ res.arg = "C"
  /\ HasEdge(adj, "B", "A") /\ HasEdge(adj, "A", "C") /\ NumEdges(adj) = 2
  /\ res.order = <<"A", "B">>

----------------------------------------------------------------------------
(* The claims on conflicts, checked under SpecConflicts *)

\* the (requester, requirement) pairs on n of the requesters in nodes
ReqPairsOn(a, nodes, n) ==
  {<<e[1], e[3]>> : e \in {x \in edges(a) : x[1] \in nodes /\ x[2] = n}}

\* the entries of a conflict list for n, as positions
EntriesFor(cs, n) == {k \in 1..Len(cs) : cs[k].node = n}

\* the entries whose two requirements are equality constraints
EqEntriesFor(cs, n) ==
  {k \in EntriesFor(cs, n) : \A i \in 1..2 : cs[k].requirements[i][2] \in EqReqs}

\* the unordered pairs of (requester, requirement) on n with differing
\* equality constraints
EqPairsOn(a, nodes, n) ==
  {S \in SUBSET ReqPairsOn(a, nodes, n) :
     /\ Cardinality(S) = 2
     /\ \A x \in S : x[2] \in EqReqs
     /\ \A x, y \in S : x # y => x[2] # y[2]}

OnlyEqualityReqs(a) == \A e \in edges(a) : e[3] \in EqReqs \cup {None}

GraphOf(es) == [n \in Requesters \cup {"X"} |->
                  IF \E e \in es : e[1] = n
                  THEN << <<"X", (CHOOSE e \in es : e[1] = n)[2]>> >> ELSE <<>>]

TwoEqGraph == GraphOf({<<"P1", "==1.0">>, <<"P2", "==2.0">>})
ThreeEqGraph == GraphOf({<<"P1", "==1.0">>, <<"P2", "==2.0">>, <<"P3", "==3.0">>})
TwoRangeGraph == GraphOf({<<"P1", ">=1.0">>, <<"P2", "<2.0">>})

\* C6 (as claimed): detect_conflicts reports exactly one entry per dependency
\* that two or more distinct equality constraints of requesters in scope
\* target, and the entry lists all the requester -> constraint pairs; one
\* entry for P1 -> X (==1.0), P2 -> X (==2.0), and still one with a third
\* requester and pairwise distinct constraints.  (Stated for graphs whose
\* requirements are all equality constraints, one per source and dependency.)
C6_OneEntryPerDependency ==
  (res.op = "detect_conflicts" /\ OnlyEqualityReqs(adj) /\ OneEdgePerPair(adj))
    => \A n \in res.nodes :
         Cardinality({x[2] : x \in ReqPairsOn(adj, res.nodes, n)} \cap EqReqs) >= 2
           => /\ Cardinality(EntriesFor(res.conflicts, n)) = 1
              /\ \A k \in EntriesFor(res.conflicts, n) :
                   Range(res.conflicts[k].requirements)
                     = {x \in ReqPairsOn(adj, res.nodes, n) : x[2] \in EqReqs}

\* C6 (amended): detect_conflicts reports one entry per pair of requirements
\* on the same dependency, from requesters in scope, whose equality
\* constraints differ, and the entry lists the two requester -> constraint
\* pairs of that pair: k requesters with pairwise distinct == constraints on
\* X give k(k-1)/2 entries for X.  P1 -> X (==1.0), P2 -> X (==2.0) gives
\* exactly one entry, listing both requesters; a third requester with ==3.0
\* gives three.
C6_OneEntryPerPair ==
  /\ res.op = "detect_conflicts"
       => /\ \A k \in 1..Len(res.conflicts) :
               /\ Len(res.conflicts[k].requirements) = 2
               /\ res.conflicts[k].node \in res.nodes
               /\ Range(res.conflicts[k].requirements)
                    \subseteq ReqPairsOn(adj, res.nodes, res.conflicts[k].node)
          /\ \A n \in res.nodes :
               /\ {Range(res.conflicts[k].requirements) : k \in EqEntriesFor(res.conflicts, n)}
                    = EqPairsOn(adj, res.nodes, n)
               /\ Cardinality(EqEntriesFor(res.conflicts, n))
                    = Cardinality(EqPairsOn(adj, res.nodes, n))
  /\ (res.op = "detect_conflicts" /\ adj = TwoEqGraph /\ res.nodes = DOMAIN adj)
       => /\ Len(res.conflicts) = 1
          /\ res.conflicts[1].node = "X"
          /\ Range(res.conflicts[1].requirements) = {<<"P1", "==1.0">>, <<"P2", "==2.0">>}
  /\ (res.op = "detect_conflicts" /\ adj = ThreeEqGraph /\ res.nodes = DOMAIN adj)
       => Len(res.conflicts) = 3

C6_Witness ==
  /\ res.op = "detect_conflicts" /\ adj = ThreeEqGraph /\ res.nodes = DOMAIN adj
  /\ Len(res.conflicts) = 3

\* C7 (as claimed): detect_conflicts reports a conflict for a dependency
\* only when two distinct equality constraints target it: every entry pairs
\* two equality constraints, and ">=1.0" with "<2.0" gives no entry.
\* (Stated for graphs with one requirement per source and dependency.)
C7_OnlyEqualityConflicts ==
  /\ (res.op = "detect_conflicts" /\ OneEdgePerPair(adj))
       => \A k \in 1..Len(res.conflicts) :
            \A i \in 1..2 : res.conflicts[k].requirements[i][2] \in EqReqs
  /\ (res.op = "detect_conflicts" /\ adj = TwoRangeGraph) => res.conflicts = <<>>

----------------------------------------------------------------------------
(* The claims on mutation and persistence, checked under SpecGraph *)

IsPrefix(s, t) == Len(s) <= Len(t) /\ SubSeq(t, 1, Len(s)) = s

\* C9: a load of what was persisted, and of what export_json wrote, gives
\* the graph back: the same nodes with the same metadata and the same edge
\* lists, requirement by requirement and in the same order per source.
C9_RoundTrip ==
  [][/\ res'.op = "load" => (adj' = adj /\ meta' = meta)
     /\ res'.op = "export_json" => load_doc(res'.doc) = [adj |-> adj, meta |-> meta]]_vars

C9_Witness ==
  /\ res.op = "load"
  /\ \E e \in edges(adj) : e[3] = None
  /\ \E e \in edges(adj) : e[3] # None
  /\ \E n \in DOMAIN meta : "version" \in DOMAIN meta[n]

\* C10 (as claimed): the edge list of a package holds at most one
\* requirement per dependency name.
C10_OneRequirementPerDependency ==
  \A pkg \in DOMAIN adj :
    \A i, j \in 1..Len(adj[pkg]) : adj[pkg][i][1] = adj[pkg][j][1] => i = j

\* C10 (amended): add_edge only avoids exact duplicates.  After any sequence
\* of add_edge calls the edge list of a package holds at most one entry per
\* (dependency, requirement) pair; add_edge never replaces an entry, it keeps
\* the entries of every list in place and appends at most one, so
\* add_edge(pkg, dep, r2) after add_edge(pkg, dep, r1) with r2 # r1 leaves
\* both requirements, r1 before r2.
C10_ExactDuplicatesOnly ==
  [][res'.op = "add_edge"
       => /\ \A pkg \in DOMAIN adj' : NoRepeats(adj'[pkg])
          /\ \A pkg \in DOMAIN adj : pkg \in DOMAIN adj' /\ IsPrefix(adj[pkg], adj'[pkg])
          /\ NumEdges(adj') <= NumEdges(adj) + 1]_vars

C10_Witness ==
  /\ res.op = "add_edge"
  /\ "A" \in DOMAIN adj
  /\ adj["A"] = << <<"B", ">=1.0">>, <<"B", "==2.0">> >>

----------------------------------------------------------------------------
(* The claim on the orchestrators, checked under SpecBuild *)

\* the graph of the dependencies that the port files declare
DeclaredGraph == load_ports_from(EmptyGraph, ports, Sorted(DOMAIN ports), 1).adj

ResolutionFails(target) ==
  \/ target \notin DOMAIN DeclaredGraph
  \/ HasCycleIn(DeclaredGraph, Closure(DeclaredGraph, target))

\* C5 (as claimed): when the dependency resolution of a build target fails,
\* by a cycle in its closure or because the target is not in the graph, the
\* build of the target starts no pipeline and installs nothing, for any
\* package, and reports failure.
C5_NoBuildOnFailedResolution ==
  (res.op \in {"build", "core_build"} /\ ResolutionFails(res.arg))
    => (res.ran = <<>> /\ res.built = <<>> /\ ~res.ok)

ConflictDeclared(target) ==
  /\ target \in DOMAIN DeclaredGraph
  /\ Closure(DeclaredGraph, target) \subseteq DOMAIN ports
  /\ ~HasCycleIn(DeclaredGraph, Closure(DeclaredGraph, target))
  /\ \E x, y \in Closure(DeclaredGraph, target) :
       \E i \in 1..Len(DeclaredGraph[x]), j \in 1..Len(DeclaredGraph[y]) :
         /\ DeclaredGraph[x][i][1] = DeclaredGraph[y][j][1]
         /\ DeclaredGraph[x][i][2] # None /\ DeclaredGraph[y][j][2] # None
         /\ DeclaredGraph[x][i][2] # DeclaredGraph[y][j][2]

\* C31: a build whose target has a dependency conflict in its closure fails
\* and starts no pipeline when force is not given, and with force it goes
\* on to the pipelines of its packages.
C31_ConflictFatalUnlessForce ==
  (res.op \in {"build", "core_build"} /\ ConflictDeclared(res.arg)) =>
    IF res.force THEN res.ran # <<>>
    ELSE ~res.ok /\ res.ran = <<>> /\ res.built = <<>>

\* a step that is a call of one of the two orchestrators
BuildStep == Idle /\ res'.op \in {"build", "core_build"}

CorePortfile(name) == name \in DOMAIN ports /\ ports[name].file = "Portfile.yaml"

C23_ClosureBuiltInOrder ==
  [][(BuildStep /\ res'.ok) =>
       /\ \A n \in Closure(DeclaredGraph, res'.arg) : n \in DOMAIN installed'
       /\ \A i \in 1..Len(res'.ran) :
            \A d \in Closure(DeclaredGraph, res'.ran[i]) \ {res'.ran[i]} :
              \/ d \in DOMAIN installed
              \/ \E j \in 1..(i - 1) : res'.ran[j] = d]_vars

----------------------------------------------------------------------------
(* The claims on the build pipeline of a port, checked under SpecPort.  In  *)
(* a result of build_port, res.stages is the list of the steps that were    *)
(* started and res.failed_at the positions of those that failed.            *)

\* the place of a stage in the claimed pipeline; 0 for a step that is none
\* of its stages
StageRank(step) ==
  CASE step = "fetching" -> 1
    [] step = "extracting" -> 2
    [] step = "patching" -> 3
    [] step = "configuring" -> 4
    [] step = "compiling" -> 5
    [] OTHER -> 0

\* C24 (as claimed): the stages of a package run in the order fetching,
\* extracting, patching, configuring, compiling, with no transition back to
\* an earlier stage, and a stage that fails is the last one that runs.
C24_LinearStages ==
  res.op = "build_port" =>
    /\ \A i, j \in 1..Len(res.stages) :
         (i < j /\ StageRank(res.stages[i]) > 0 /\ StageRank(res.stages[j]) > 0)
           => StageRank(res.stages[i]) <= StageRank(res.stages[j])
    /\ \A i \in res.failed_at : StageRank(res.stages[i]) > 0 => i = Len(res.stages)

\* the phase of a step of build_port: the source items, the patches, the
\* choice of the source tree, then the hooks and the build in their order
Phase(step) ==
  CASE step \in {"fetching", "extracting"} -> 1
    [] step = "patching" -> 2
    [] step = "select_source_tree" -> 3
    [] step = "pre_configure" -> 4
    [] step = "configuring" -> 5
    [] step = "compiling" -> 6
    [] step = "make_install" -> 7
    [] step = "post_configure" -> 8
    [] step = "check" -> 9
    [] step = "pre_install" -> 10
    [] step = "installing" -> 11
    [] OTHER -> 12

\* C24 (amended): build_port fetches and extracts the source items one
\* after the other, an extraction following the fetch of its item, and only
\* then goes through patching, the pre_configure hooks, configuring,
\* compiling and the later steps, never back to an earlier phase.  A step
\* that fails is the last one that runs, except a check hook, whose failure
\* is ignored; the build succeeds exactly when no other step failed, and
\* then it ran to the post_install hooks.
C24_LinearPhases ==
  res.op = "build_port" =>
    /\ \A i, j \in 1..Len(res.stages) :
         i < j => Phase(res.stages[i]) <= Phase(res.stages[j])
    /\ \A i \in 1..Len(res.stages) :
         res.stages[i] = "extracting" => (i > 1 /\ res.stages[i - 1] = "fetching")
    /\ \A i \in res.failed_at : res.stages[i] = "check" \/ i = Len(res.stages)
    /\ res.status = "ok" <=>
         /\ res.stages # <<>>
         /\ res.stages[Len(res.stages)] = "post_install"
         /\ \A i \in res.failed_at : res.stages[i] = "check"

\* a successful build of two archives whose check hook failed
C24_Witness ==
  /\ res.op = "build_port" /\ res.status = "ok"
  /\ \E i \in res.failed_at : res.stages[i] = "check"
  /\ SubSeq(res.stages, 1, 5) = <<"fetching", "extracting", "fetching", "extracting", "patching">>

\* C29: a build that was started ends with its build directory removed,
\* whether it succeeded or failed, unless keep was requested.
C29_BuildDirDestroyed ==
  (res.op = "build_port" /\ res.stages # <<>> /\ ~res.keep) => BUILD_DIR \notin DOMAIN fs

----------------------------------------------------------------------------
(* The claims on the compile and configure stages, checked under            *)
(* SpecCompile.  res.ran holds the command lines a call executed.           *)

\* a call of compile_port or configure for a build system that has a
\* command, and whether the fingerprint the stage persisted is the current
\* one when the call is made
StageStep == Idle /\ res'.op \in {"compile_port", "configure"} /\ res'.arg # "custom"
FingerprintMatches(op, cflags) ==
  IF op = "compile_port"
  THEN COMPILE_DONE \in DOMAIN fs /\ fs[COMPILE_DONE].content = _hash_source(fs)
  ELSE CONFIGURE_DONE \in DOMAIN fs
         /\ fs[CONFIGURE_DONE].content = _hash_env([CFLAGS |-> cflags])

\* C25: a configure or compile stage runs no command when the fingerprint
\* persisted by its prior successful run matches the current one and force
\* is false, and runs its command otherwise: always under force, and in the
\* first of two calls on an unchanged source tree.
C25_SkippedOnlyOnMatch ==
  [][StageStep =>
       IF FingerprintMatches(res'.op, res'.message) /\ ~res'.force
       THEN res'.ran = <<>>
       ELSE res'.ran # <<>>]_vars

\* C26: a compile command that keeps failing is executed exactly twice, with
\* the configured jobs and then serially, and the stage fails; when only
\* the first execution fails the serial retry makes the stage succeed.
C26_RetriesOnceSerially ==
  (res.op = "compile_port" /\ res.arg # "custom") =>
    /\ res.fails = 1..MaxRuns =>
         /\ res.status = "error"
         /\ Len(res.ran) = 2
         /\ res.ran[2].j <= 1
    /\ res.fails = {1} => (res.status = "ok" /\ Len(res.ran) = 2)

----------------------------------------------------------------------------
(* The claims on sandboxed commands, checked under SpecFakeroot.  In a      *)
(* result, res.self is the Fakerunner (for a construction, the one asked    *)
(* for), res.cmd the command handed in, res.ran the commands executed and   *)
(* res.env the DESTDIR put on the environment.                              *)

\* a layer is enabled and its tool is not on the host
BwrapMissing(self) == self.use_bwrap /\ ~which(fs, "bwrap")
FakerootMissing(self) == self.use_fakeroot /\ ~which(fs, "fakeroot")

HasWord(c, w) == \E i \in 1..Len(c) : c[i] = [flag |-> "", value |-> w]
\* the last n elements of c, none when c is shorter
LastN(c, n) == IF n > Len(c) THEN <<>> ELSE SubSeq(c, Len(c) - n + 1, Len(c))

\* C27: when a layer is enabled and its tool is unavailable, a runner that
\* requires its tools fails with ToolMissingError at construction, so that
\* no command is executed with it; a runner that does not require them runs
\* the command without the prefix of that layer, and with the prefix of the
\* other layer exactly when that one is enabled and available.
C27_MissingTool ==
  [][/\ (Idle /\ res'.op = "Fakerunner"
           /\ (BwrapMissing(res'.self) \/ FakerootMissing(res'.self))
           /\ res'.self.require_tools)
          => (res'.status = "ToolMissingError" /\ procs' = procs /\ res'.ran = <<>>)
     /\ (Idle /\ res'.op \in {"run", "install_into_sandbox"} /\ res'.arg # None
           /\ (BwrapMissing(res'.self) \/ FakerootMissing(res'.self))
           /\ ~res'.self.dry_run)
          => /\ ~res'.self.require_tools
             /\ res'.status = "ok"
             /\ Len(res'.ran) = 1
             /\ HasWord(res'.ran[1], "bwrap")
                  <=> (res'.self.use_bwrap /\ which(fs, "bwrap"))
             /\ HasWord(res'.ran[1], "fakeroot")
                  <=> (res'.self.use_fakeroot /\ which(fs, "fakeroot"))
             /\ res'.op = "run" => LastN(res'.ran[1], Len(res'.cmd)) = res'.cmd]_vars

\* both layers enabled, bwrap missing: the command ran under fakeroot alone
C27_Witness ==
  /\ res.op = "run" /\ res.status = "ok"
  /\ res.self.use_bwrap /\ res.self.use_fakeroot
  /\ ~which(fs, "bwrap") /\ which(fs, "fakeroot")
  /\ res.ran = << <<[flag |-> "", value |-> "fakeroot"]>> \o res.cmd >>

\* the command runs under namespace isolation
Isolated(self) == self.use_bwrap /\ self._have_bwrap

DestTokens(c) == {i \in 1..Len(c) : c[i].flag \in {"DESTDIR=", "--root=", "--prefix="}}

\* C28 (as claimed): a command that holds DESTDIR=, --root= or --prefix= is
\* executed as it is, and one that holds none of them is executed with the
\* destination appended: /install under namespace isolation, the absolute
\* path of the sandbox otherwise.
C28_DestinationAppended ==
  (res.op = "install_into_sandbox" /\ res.ran # <<>>) =>
    LET final == res.ran[1]
        n == Len(res.cmd)
        dest == IF Isolated(res.self) THEN "/install" ELSE resolve_path(res.arg)
    IN IF DestTokens(res.cmd) # {}
       THEN LastN(final, n) = res.cmd
       ELSE LastN(final, n + 1) = Append(res.cmd, [flag |-> "DESTDIR=", value |-> dest])

\* the command names a destination: DESTDIR=, --root=, or a --prefix=
\* together with the text /install
NamesDestination(c) ==
  \/ \E i \in 1..Len(c) : c[i].flag \in {"DESTDIR=", "--root="}
  \/ (\E i \in 1..Len(c) : c[i].flag = "--prefix=")
       /\ (\E i \in 1..Len(c) : c[i].value \in InstallTexts)

\* C28 (amended): under namespace isolation a command that names no
\* destination is executed with DESTDIR=/install appended and one that names
\* a destination is executed as it is; without isolation the command is
\* always executed as it is and DESTDIR, the absolute path of the sandbox,
\* is put on its environment.  No command gets a second DESTDIR.
C28_DestinationRule ==
  (res.op = "install_into_sandbox" /\ res.ran # <<>>) =>
    LET final == res.ran[1]
        n == Len(res.cmd)
    IN IF Isolated(res.self) /\ ~NamesDestination(res.cmd)
       THEN /\ LastN(final, n + 1) = Append(res.cmd, [flag |-> "DESTDIR=", value |-> "/install"])
            /\ res.env = ""
       ELSE /\ LastN(final, n) = res.cmd
            /\ Cardinality(DestTokens(final)) = Cardinality(DestTokens(res.cmd))
            /\ res.env = (IF Isolated(res.self) THEN "" ELSE resolve_path(res.arg))

\* under isolation a command with --prefix=/usr got DESTDIR=/install, and
\* without isolation a command ran unchanged with DESTDIR on its environment
C28_Witness ==
  /\ res.op = "install_into_sandbox" /\ res.ran # <<>>
  /\ \/ /\ Isolated(res.self)
        /\ \E i \in 1..Len(res.cmd) : res.cmd[i] = [flag |-> "--prefix=", value |-> "/usr"]
        /\ res.ran[1][Len(res.ran[1])] = [flag |-> "DESTDIR=", value |-> "/install"]
     \/ /\ ~Isolated(res.self)
        /\ res.arg = "sb" /\ res.env = "/work/sb"
        /\ DestTokens(res.cmd) = {}

----------------------------------------------------------------------------
(* Installs *)

\* a step that is a call of install_package, and one whose copy loop raised
InstallStep == Idle /\ res'.op = "install"
CopyFailed == InstallStep /\ res'.message = "copy failed"

\* the target paths of the package of the call
TargetsOf(pkg) == DOMAIN pkg.entries

\* the bytes of the regular files of a package
PkgBytes(pkg) == FileBytes * Cardinality({f \in DOMAIN pkg.entries : pkg.entries[f].type = "file"})

\* C11: if a copy fails during install_package, then after the rollback
\* every target path that existed on the host before the install has its
\* original type and content
C11_RollbackRestores ==
  [][CopyFailed =>
       \A f \in TargetsOf(res'.pkg) \cap DOMAIN fs : f \in DOMAIN fs' /\ fs'[f] = fs[f]]_vars

\* C12: if a copy fails during install_package, every target path that did
\* not exist before the install and was written before the failure is
\* deleted again by the rollback
C12_RollbackDeletesNew ==
  [][CopyFailed => \A f \in TargetsOf(res'.pkg) \ DOMAIN fs : f \notin DOMAIN fs']_vars

ReachedSpaceCheck(r) ==
  r.op = "install" /\ r.status \notin {"skipped", "dry-run"}
  /\ r.message # "missing-dependencies"

\* C18: the space check compares the free bytes with twice the bytes of the
\* files to install: with less free the call returns the insufficient-space
\* error before any backup, host write or ledger change, and with at least
\* that much it passes the check
C18_SpaceCheck ==
  [][(Idle /\ ReachedSpaceCheck(res')) =>
       /\ (res'.free < 2 * PkgBytes(res'.pkg)) <=> (res'.message = "insufficient-disk-space")
       /\ res'.message = "insufficient-disk-space" =>
            (fs' = fs /\ installed' = installed /\ res'.backup = <<>>)]_vars

\* the free space lies between the bytes of the package and twice them, the
\* call was refused, and the host holds a path the package would overwrite
C18_Witness ==
  /\ res.op = "install" /\ res.message = "insufficient-disk-space"
  /\ res.free >= PkgBytes(res.pkg) /\ PkgBytes(res.pkg) > 0
  /\ TargetsOf(res.pkg) \cap DOMAIN fs # {}

\* a call of install_package that a user interrupt stopped
InterruptStep == Idle /\ res'.op = "install_interrupted"

\* the backup set of the call is on disk: the backup directory, with a pair
\* for every target path that was on the host before the call
BackupSetKept ==
  /\ res'.backup_dir
  /\ \A f \in TargetsOf(res'.pkg) \cap DOMAIN fs :
       \E i \in 1..Len(res'.backup) : res'.backup[i][1] = f

\* the call left the ledger entry of its package as it was
NotRecorded ==
  IF res'.arg \in DOMAIN installed'
  THEN res'.arg \in DOMAIN installed /\ installed'[res'.arg] = installed[res'.arg]
  ELSE TRUE

\* C30 (as claimed): an interrupt at any point of the install of a package
\* that has changed the host leaves the backup set of the package on disk,
\* and at no point is the package recorded as installed in the ledger.
C30_InterruptKeepsBackup ==
  [][InterruptStep => /\ (fs' # fs => BackupSetKept)
                      /\ NotRecorded]_vars

\* C30 (amended): an interrupt that arrives before install_package has
\* written the ledger leaves the backup set on disk once the backup was
\* taken, and the package not recorded; one that arrives after the write
\* leaves the package recorded with all its files installed, and the backup
\* set on disk until the call removes it, which it does unless keep_backup.
C30_InterruptBeforeLedger ==
  [][InterruptStep =>
       IF res'.message \in {"before_backup", "copy", "ledger_write"}
       THEN /\ (res'.message # "before_backup") => BackupSetKept
            /\ res'.message = "before_backup" => fs' = fs
            /\ NotRecorded
       ELSE /\ res'.arg \in DOMAIN installed'
            /\ installed'[res'.arg].version = res'.pkg.version
            /\ \A f \in TargetsOf(res'.pkg) : f \in DOMAIN fs'
            /\ res'.backup_dir <=> (res'.message = "recorded" \/ res'.keep)]_vars

\* an interrupt in the copy loop, after the first entry was copied over a
\* path of the host, of a package that replaces an installed version
C30_Witness ==
  /\ res.op = "install_interrupted" /\ res.message = "copy" /\ res.at > 1
  /\ res.backup # <<>> /\ res.backup_dir
  /\ res.arg \in DOMAIN installed
  /\ installed[res.arg].version # res.pkg.version

----------------------------------------------------------------------------
(* The ledger under concurrent invocations, checked under SpecLedger *)

\* process p loads the ledger in this step
LoadsLedger(p) == procs[p].pc = "start" /\ procs'[p].pc # "start"

\* C15: the ledger is persisted by writing a temporary file and renaming it
\* over the ledger, so that a concurrent reader sees the complete old or the
\* complete new document, never an empty or partly written file: every load
\* returns the document that was last saved
C15_ReaderSeesCompleteLedger ==
  [][\A p \in DOMAIN procs : LoadsLedger(p) => procs'[p].db = installed]_vars

\* every call has returned
AllDone == \A p \in DOMAIN procs : procs[p].pc = "done"

\* C16: the ledger is changed under an exclusive lock held for the whole
\* read-modify-write, so that concurrent installs and removes of different
\* packages are all reflected in the final ledger
C16_BothUpdatesReflected ==
  AllDone =>
    \A p \in DOMAIN procs :
      /\ procs[p].call.op = "install" => procs[p].call.name \in DOMAIN installed
      /\ procs[p].call.op = "remove" => procs[p].call.name \notin DOMAIN installed

----------------------------------------------------------------------------
(* deps.json under concurrent processes, checked under SpecPersist *)

\* the graph that deps.json holds
PersistedGraph == IF persistFile.exists THEN load_doc(persistFile.doc) ELSE EmptyGraph

\* the mutation of a call is in graph g
Reflected(c, g) ==
  /\ c.name \in DOMAIN g.adj
  /\ c.op = "add_edge" => HasEdge(g.adj, c.name, c.dep)

\* C17: the persisted dependency graph is changed under an exclusive lock
\* held for the whole read-modify-write: when two processes each construct
\* a DependencyGraph(persist=True) and add a different node or edge, the
\* persisted graph holds both additions once both have returned
C17_BothAdditionsPersisted ==
  AllDone => \A p \in DOMAIN procs : Reflected(procs[p].call, PersistedGraph)

----------------------------------------------------------------------------
(* Removes, checked under SpecRemove *)

\* a step that is a call of remove_package
RemoveStep == Idle /\ res'.op = "remove"

\* the paths of the file list of the package of the call that exist before it
ListedBefore == {f \in Range(installed[res'.arg].files) : f \in DOMAIN fs}

============================================================================
